---- MODULE Spec2Model ----
(***************************************************************************)
(* Movie Facts application: the request handlers of the API routes         *)
(* (generate-fact, search-movies, user/favorite-movie, set-movie,          *)
(* movie-fact) and the helpers they call.                                  *)
(*                                                                         *)
(* A JavaScript string is a sequence of pieces.  Titles, queries and table *)
(* keys are spelled character by character (each piece one character), so *)
(* toLowerCase, includes and trim work on characters; a literal sentence   *)
(* of the source is one piece.  Concatenation is \o.                       *)
(* A JavaScript value is a record [t, v]: t its type tag, v its payload.   *)
(***************************************************************************)
EXTENDS Integers, Sequences, FiniteSets, TLC

VARIABLES
    openaiKey,   \* process.env.OPENAI_API_KEY is set
    factBody,    \* the body of the POST /api/generate-fact request being sent
    factResp,    \* the response to the latest POST /api/generate-fact
    factPrev,    \* the response to the same request sent before it
    selArgs,     \* arguments of the latest getFactFromArray call
    selOut,      \* and what it returned
    tmdbKey,     \* process.env.TMDB_API_KEY is set
    serverWest,  \* the server's time zone is west of UTC
    searchQuery, \* the q parameter of the GET /api/search-movies request being sent
    tmdbOutcome, \* what the external service held ready for the latest request
    searchResp,  \* the response to the latest GET /api/search-movies
    db,          \* the User table: for each user id, its row
    dbBefore,    \* the User table when the latest request arrived
    prefReq,     \* the latest request to a preference endpoint
    prefResp,    \* and the response to it
    inFlight,    \* the set-favorite requests being handled concurrently
    lastWriter,  \* for each user, the title of the latest write applied
    \* the state of the MovieSearch component
    msQuery,        \* query: the value of the search input
    movies,         \* the search results held
    isLoading,      \* a search is under way
    showDropdown,   \* the dropdown is to be shown
    selectedIndex,  \* the index selected with the keyboard, -1 for none
    isFallback,     \* the results held are fallback results
    searchTimers,   \* the debounce timers pending, each with its query
    timeoutId,      \* the timer the cleanup of the latest effect run clears
    searchesInFlight, \* the search calls without a response yet
    searchesIssued, \* the number of search calls made
    moviesOf,       \* the number of the search call whose results are held
    selectionMade,  \* a result was selected and the user has neither
                    \* changed the query nor focused the input since
    \* the state of the Home page
    userFavoriteMovie, \* the favorite movie loaded or saved
    movieFact,      \* the fact displayed
    lastFact,       \* the fact remembered as the previous one
    isSettingMovie, \* a save of the favorite movie is under way
    isLoadingFact,  \* a fact generation is under way
    showMovieInput, \* the movie-selection screen is shown
    isEditingMovie, \* the user is changing the favorite movie
    userDataLoad,   \* fetchUserData: not started, under way or finished
    saveInFlight,   \* the saves of handleSetFavoriteMovie without a response
    factTimers,     \* the 500 ms timers pending, each with its closure
    factsInFlight,  \* the generate-fact calls without a response yet
    factsIssued,    \* the number of generate-fact calls made
    movieFactOf     \* the title the displayed fact was requested for

factVars == <<openaiKey, factBody, factResp, factPrev>>
selVars == <<selArgs, selOut>>
searchVars == <<tmdbKey, serverWest, searchQuery, tmdbOutcome, searchResp>>

prefVars == <<db, dbBefore, prefReq, prefResp>>

raceVars == <<inFlight, lastWriter>>

msVars == <<msQuery, movies, isLoading, showDropdown, selectedIndex, isFallback,
            searchTimers, timeoutId, searchesInFlight, searchesIssued, moviesOf,
            selectionMade>>

homeVars == <<userFavoriteMovie, movieFact, lastFact, isSettingMovie,
              isLoadingFact, showMovieInput, isEditingMovie, userDataLoad,
              saveInFlight, factTimers, factsInFlight, factsIssued, movieFactOf>>

uiVars == <<msVars, homeVars>>

vars == <<factVars, selVars, searchVars, prefVars, raceVars, uiVars>>

----------------------------------------------------------------------------
(* Bounds of the model *)

\* request ids range over -3..MaxRequestId and over
\* SeedModulus-1..SeedModulus+MaxSeedExcess
MaxRequestId == 7
MaxSeedExcess == 2
\* Math.random() is k/RandomSteps for k in 0..RandomSteps-1
RandomSteps == 3
\* getFactFromArray is applied to arrays of 0..MaxFacts facts
MaxFacts == 3
\* up to MaxInFlight set-favorite requests are handled at the same time
MaxInFlight == 2

----------------------------------------------------------------------------
(* JavaScript values *)

JUndefined == [t |-> "undefined", v |-> <<>>]
JNull == [t |-> "null", v |-> <<>>]
JNum(n) == [t |-> "number", v |-> n]
JStr(s) == [t |-> "string", v |-> s]

\* ToBoolean: undefined, null, 0 and "" are falsy
Truthy(x) ==
    CASE x.t = "undefined" -> FALSE
      [] x.t = "null" -> FALSE
      [] x.t = "number" -> x.v # 0
      [] x.t = "string" -> Len(x.v) > 0
      [] OTHER -> TRUE

\* a === b
StrictEq(a, b) == a.t = b.t /\ a.v = b.v

\* a % b of JavaScript for integers, b > 0: the sign follows the dividend
JsRem(a, b) == IF a >= 0 THEN a % b ELSE 0 - ((0 - a) % b)

UpperCase == <<"A","B","C","D","E","F","G","H","I","J","K","L","M",
               "N","O","P","Q","R","S","T","U","V","W","X","Y","Z">>
LowerCase == <<"a","b","c","d","e","f","g","h","i","j","k","l","m",
               "n","o","p","q","r","s","t","u","v","w","x","y","z">>

UpperToLower ==
    [c \in {UpperCase[i] : i \in 1..26} |->
        LowerCase[CHOOSE i \in 1..26 : UpperCase[i] = c]]

ToLowerChar(c) == IF c \in DOMAIN UpperToLower THEN UpperToLower[c] ELSE c

\* String.prototype.toLowerCase
toLowerCase(s) == [i \in 1..Len(s) |-> ToLowerChar(s[i])]

\* String.prototype.includes
includes(s, sub) ==
    \E i \in 0..(Len(s) - Len(sub)) : SubSeq(s, i + 1, i + Len(sub)) = sub

IsWhiteSpace(c) == c \in {" ", "\t", "\n"}

\* String.prototype.trim
trim(s) ==
    LET keep == {i \in 1..Len(s) : ~IsWhiteSpace(s[i])}
    IN  IF keep = {} THEN <<>>
        ELSE SubSeq(s, CHOOSE i \in keep : \A j \in keep : i <= j,
                       CHOOSE i \in keep : \A j \in keep : i >= j)

\* Array.prototype.filter
filter(arr, Keep(_)) == SelectSeq(arr, Keep)

Range(seq) == {seq[i] : i \in 1..Len(seq)}

----------------------------------------------------------------------------
(* The fallback fact table of getMovieSpecificFact *)

KeyHomeAlone == <<"h","o","m","e"," ","a","l","o","n","e">>
KeyHomeAlone2 == <<"h","o","m","e"," ","a","l","o","n","e"," ","2">>
KeyLostInNewYork == <<"l","o","s","t"," ","i","n"," ","n","e","w"," ","y","o","r","k">>
KeyTitanic == <<"t","i","t","a","n","i","c">>
KeyAvatar == <<"a","v","a","t","a","r">>

\* Object.entries(facts): the keys in declaration order
factKeys == <<KeyHomeAlone, KeyHomeAlone2, KeyLostInNewYork, KeyTitanic, KeyAvatar>>

facts(key) ==
    CASE key = KeyHomeAlone -> <<
        <<"Home Alone was originally written for John Hughes' own son, and the famous scream face was inspired by Edvard Munch's painting 'The Scream'.">>,
        <<"Macaulay Culkin was paid $100,000 for the first Home Alone, but earned $4.5 million for Home Alone 2.">>,
        <<"The tarantula used in the movie was actually harmless, and Daniel Stern's scream was dubbed in later because his real scream was too loud.">> >>
      [] key = KeyHomeAlone2 -> <<
        <<"Home Alone 2 was the first film to be shot inside the Plaza Hotel, and Donald Trump has a cameo directing Kevin to the lobby.">>,
        <<"The pigeon lady was played by Brenda Fricker, who won an Oscar for 'My Left Foot' the same year Home Alone was released.">>,
        <<"Tim Curry was originally cast as the hotel concierge but was replaced by Rob Schneider after creative differences.">> >>
      [] key = KeyLostInNewYork -> <<
        <<"Home Alone 2: Lost in New York was the first film to be shot inside the Plaza Hotel, and Donald Trump has a cameo directing Kevin to the lobby.">>,
        <<"The pigeon lady was played by Brenda Fricker, who won an Oscar for 'My Left Foot' the same year Home Alone was released.">>,
        <<"Tim Curry was originally cast as the hotel concierge but was replaced by Rob Schneider after creative differences.">> >>
      [] key = KeyTitanic -> <<
        <<"The famous 'I'm flying' scene was filmed against a real sunset, and Kate Winslet's hair kept getting caught in Leo's mouth during takes.">>,
        <<"James Cameron drew the nude sketches of Rose himself, and the hands shown sketching in the movie are actually his hands.">>,
        <<"The elderly couple lying in bed as the ship sinks were based on the real Ida and Isidor Straus, who died on the Titanic.">> >>
      [] key = KeyAvatar -> <<
        <<"James Cameron developed the technology for Avatar over 14 years, waiting for CGI to advance enough to bring his vision to life.">>,
        <<"The Na'vi language was created by linguist Paul Frommer and has over 1,000 words with its own grammar structure.">>,
        <<"Sam Worthington was working as a bricklayer in Australia when he was cast as Jake Sully.">> >>
      [] OTHER -> <<>>

\* requestId % 1000000
SeedModulus == 1000000

\* Math.floor(Math.random() * n), Math.random() = rnd / RandomSteps
RandomIndex(rnd, n) == (rnd * n) \div RandomSteps

\* arr[i] for a number i: undefined outside 0..length-1
At(arr, i) == IF i >= 0 /\ i < Len(arr) THEN JStr(arr[i + 1]) ELSE JUndefined

factsToChooseFromNoFallback(factsArray, excludeFact) ==
    IF Truthy(excludeFact)
    THEN filter(factsArray, LAMBDA fact : ~StrictEq(JStr(fact), excludeFact))
    ELSE factsArray
\* the candidates getFactFromArray chooses from (an array of 2 or more facts)
factsToChooseFrom(factsArray, excludeFact) ==
    LET availableFacts ==
            IF Truthy(excludeFact)
            THEN filter(factsArray, LAMBDA fact : ~StrictEq(JStr(fact), excludeFact))
            ELSE factsArray
    IN  IF Len(availableFacts) > 0 THEN availableFacts ELSE factsArray

SeededIndexNoSeedModulus(requestId, n) == JsRem(requestId.v, n)
\* seed % factsToChooseFrom.length, seed = requestId % 1000000
SeededIndex(requestId, n) == JsRem(JsRem(requestId.v, SeedModulus), n)

getFactFromArrayFilterFirst(factsArray, requestId, excludeFact, rnd) ==
    LET availableFacts ==
            IF Truthy(excludeFact)
            THEN filter(factsArray, LAMBDA fact : ~StrictEq(JStr(fact), excludeFact))
            ELSE factsArray
    IN  IF Len(availableFacts) = 0 THEN JNull
        ELSE IF Len(availableFacts) = 1 THEN JStr(availableFacts[1])
        ELSE IF Truthy(requestId)
             THEN At(availableFacts, SeededIndex(requestId, Len(availableFacts)))
             ELSE At(availableFacts, RandomIndex(rnd, Len(availableFacts)))
\* the value getFactFromArray returns: a fact, null or undefined
getFactFromArray(factsArray, requestId, excludeFact, rnd) ==
    IF Len(factsArray) = 0 THEN JNull
    ELSE IF Len(factsArray) = 1 THEN JStr(factsArray[1])
    ELSE LET chooseFrom == factsToChooseFrom(factsArray, excludeFact)
         IN  IF Truthy(requestId)
             THEN At(chooseFrom, SeededIndex(requestId, Len(chooseFrom)))
             ELSE At(chooseFrom, RandomIndex(rnd, Len(chooseFrom)))

NoKey == <<>>

matchedKeyBaseFirst(movie) ==
    LET movieLower == toLowerCase(movie)
        others == {i \in 1..Len(factKeys) :
                      /\ factKeys[i] # KeyHomeAlone
                      /\ factKeys[i] # KeyHomeAlone2
                      /\ factKeys[i] # KeyLostInNewYork
                      /\ includes(movieLower, factKeys[i])}
    IN  IF includes(movieLower, KeyHomeAlone) THEN KeyHomeAlone
        ELSE IF includes(movieLower, KeyHomeAlone2)
                \/ includes(movieLower, KeyLostInNewYork) THEN KeyHomeAlone2
        ELSE IF others # {}
             THEN factKeys[CHOOSE i \in others : \A j \in others : i <= j]
        ELSE NoKey
\* the key whose fact list getMovieSpecificFact passes to getFactFromArray
matchedKey(movie) ==
    LET movieLower == toLowerCase(movie)
        others == {i \in 1..Len(factKeys) :
                      /\ factKeys[i] # KeyHomeAlone
                      /\ factKeys[i] # KeyHomeAlone2
                      /\ factKeys[i] # KeyLostInNewYork
                      /\ includes(movieLower, factKeys[i])}
    IN  IF includes(movieLower, KeyHomeAlone2)
           \/ includes(movieLower, KeyLostInNewYork) THEN KeyHomeAlone2
        ELSE IF includes(movieLower, KeyHomeAlone)
                /\ ~includes(movieLower, KeyHomeAlone2) THEN KeyHomeAlone
        ELSE IF others # {}
             THEN factKeys[CHOOSE i \in others : \A j \in others : i <= j]
        ELSE NoKey

getMovieSpecificFact(movie, requestId, excludeFact, rnd) ==
    IF matchedKey(movie) = NoKey THEN JNull
    ELSE getFactFromArray(facts(matchedKey(movie)), requestId, excludeFact, rnd)

----------------------------------------------------------------------------
(* POST /api/generate-fact *)

NoCredentialFactWithoutTitle(movie) ==
    <<"I don't have specific facts about that movie available right now, but it's a great movie! Try refreshing the page.">>
NoCredentialFact(movie) ==
    <<"I don't have specific facts about \"">> \o movie
        \o <<"\" available right now, but it's a great movie! Try refreshing the page.">>

EmptyOutputFact(movie) ==
    <<"Sorry, I couldn't generate a specific fact about \"">> \o movie
        \o <<"\" right now. Try refreshing the page for a new attempt!">>

CallFailedFact ==
    <<"I'm having trouble generating facts right now, but that's definitely a great movie! Try refreshing the page.">>

\* what openai.chat.completions.create does: it throws, or it resolves to a
\* completion whose choices[0]?.message?.content is undefined or a string
LlmThrows == [kind |-> "throws", content |-> JUndefined]
LlmContent(c) == [kind |-> "resolves", content |-> c]

\* status and body of the response; source, key, tableRead and llmCalled
\* record how it was produced: the branch that returned, the table key whose
\* list was consulted, whether getMovieSpecificFact was called and whether
\* the completion call was made
FactResponse(status, fact, error, source, key, tableRead, llmCalled) ==
    [status |-> status, fact |-> fact, error |-> error,
     source |-> source, key |-> key, tableRead |-> tableRead,
     llmCalled |-> llmCalled]

NoResponse == FactResponse(0, JUndefined, <<>>, "none", NoKey, FALSE, FALSE)

\* the part of POST after validation: the table, then the completion call
generateFactFor(movie, requestId, excludeFact, key, rnd, llm) ==
    LET list == matchedKey(movie)
        fallbackFact == getMovieSpecificFact(movie, requestId, excludeFact, rnd)
        fact == IF llm.content.t = "string"
                THEN JStr(trim(llm.content.v)) ELSE JUndefined
    IN  IF Truthy(fallbackFact)
        THEN FactResponse(200, fallbackFact, <<>>, "table", list, TRUE, FALSE)
        ELSE IF ~key
        THEN FactResponse(200, JStr(NoCredentialFact(movie)), <<>>,
                          "no-credential", list, TRUE, FALSE)
        ELSE IF llm.kind = "throws"
        THEN FactResponse(200, JStr(CallFailedFact), <<>>, "call-failed",
                          list, TRUE, TRUE)
        ELSE IF ~Truthy(fact)
        THEN FactResponse(200, JStr(EmptyOutputFact(movie)), <<>>,
                          "empty-output", list, TRUE, TRUE)
        ELSE FactResponse(200, fact, <<>>, "llm", list, TRUE, TRUE)

generateFactPOSTSurfacesFailure(body, key, rnd, llm) ==
    IF ~body.parsed
    THEN FactResponse(500, JUndefined, <<"Internal server error">>, "call-failed",
                      NoKey, FALSE, FALSE)
    ELSE IF ~Truthy(body.movie) \/ body.movie.t # "string"
    THEN FactResponse(400, JUndefined, <<"Movie name is required">>, "none",
                      NoKey, FALSE, FALSE)
    ELSE LET resp == generateFactFor(body.movie.v, body.requestId,
                                      body.excludeFact, key, rnd, llm)
         IN  IF resp.source = "call-failed"
             THEN FactResponse(500, JUndefined, <<"Internal server error">>,
                               "call-failed", resp.key, TRUE, TRUE)
             ELSE resp
generateFactPOSTNoTypeCheck(body, key, rnd, llm) ==
    IF ~body.parsed
    THEN FactResponse(200, JStr(CallFailedFact), <<>>, "call-failed", NoKey,
                      FALSE, FALSE)
    ELSE IF ~Truthy(body.movie)
    THEN FactResponse(400, JUndefined, <<"Movie name is required">>, "none",
                      NoKey, FALSE, FALSE)
    ELSE IF body.movie.t # "string"
    THEN FactResponse(200, JStr(CallFailedFact), <<>>, "call-failed", NoKey,
                      TRUE, FALSE)
    ELSE generateFactFor(body.movie.v, body.requestId, body.excludeFact,
                         key, rnd, llm)
\* the response of POST: body is the parsed JSON body (parsed = FALSE when
\* request.json() throws), key tells whether OPENAI_API_KEY is set, rnd is the
\* value of Math.random, llm the outcome of the completion call if it is made
generateFactPOST(body, key, rnd, llm) ==
    IF ~body.parsed
    THEN FactResponse(200, JStr(CallFailedFact), <<>>, "call-failed", NoKey,
                      FALSE, FALSE)
    ELSE IF ~Truthy(body.movie) \/ body.movie.t # "string"
    THEN FactResponse(400, JUndefined, <<"Movie name is required">>, "none",
                      NoKey, FALSE, FALSE)
    ELSE generateFactFor(body.movie.v, body.requestId, body.excludeFact,
                         key, rnd, llm)

----------------------------------------------------------------------------
(* GET /api/search-movies *)

\* the number of TMDB results kept: data.results.slice(0, 8)
MaxResults == 8

\* the shortest query that is searched: query.length < 2
MinQueryLength == 2

CatHomeAlone == <<"H","o","m","e"," ","A","l","o","n","e">>
CatHomeAlone2 == <<"H","o","m","e"," ","A","l","o","n","e"," ","2",":"," ","L","o","s","t"," ","i","n"," ","N","e","w"," ","Y","o","r","k">>
CatShawshank == <<"T","h","e"," ","S","h","a","w","s","h","a","n","k"," ","R","e","d","e","m","p","t","i","o","n">>
CatGodfather == <<"T","h","e"," ","G","o","d","f","a","t","h","e","r">>
CatTitanic == <<"T","i","t","a","n","i","c">>
CatAvatar == <<"A","v","a","t","a","r">>
CatDarkKnight == <<"T","h","e"," ","D","a","r","k"," ","K","n","i","g","h","t">>
CatForrestGump == <<"F","o","r","r","e","s","t"," ","G","u","m","p">>
CatInception == <<"I","n","c","e","p","t","i","o","n">>
CatMatrix == <<"T","h","e"," ","M","a","t","r","i","x">>
CatPulpFiction == <<"P","u","l","p"," ","F","i","c","t","i","o","n">>
CatLionKing == <<"T","h","e"," ","L","i","o","n"," ","K","i","n","g">>

CatalogEntry(title, year, overview) ==
    [title |-> title, year |-> year, overview |-> overview]

popularMovies == <<
    CatalogEntry(CatHomeAlone, 1990,
        <<"8-year-old Kevin is accidentally left behind when his family goes on vacation.">>),
    CatalogEntry(CatHomeAlone2, 1992,
        <<"Kevin ends up in New York City alone and must defend a hotel from burglars.">>),
    CatalogEntry(CatShawshank, 1994,
        <<"Two imprisoned men bond over years, finding solace and redemption.">>),
    CatalogEntry(CatGodfather, 1972,
        <<"The aging patriarch of an organized crime dynasty transfers control to his reluctant son.">>),
    CatalogEntry(CatTitanic, 1997,
        <<"A seventeen-year-old aristocrat falls in love with a kind but poor artist aboard the luxurious, ill-fated R.M.S. Titanic.">>),
    CatalogEntry(CatAvatar, 2009,
        <<"A paraplegic Marine dispatched to the moon Pandora on a unique mission.">>),
    CatalogEntry(CatDarkKnight, 2008,
        <<"Batman faces the Joker, a criminal mastermind who wants to plunge Gotham City into anarchy.">>),
    CatalogEntry(CatForrestGump, 1994,
        <<"The presidencies of Kennedy and Johnson through the eyes of an Alabama man with an IQ of 75.">>),
    CatalogEntry(CatInception, 2010,
        <<"A thief who steals corporate secrets through dream-sharing technology.">>),
    CatalogEntry(CatMatrix, 1999,
        <<"A computer hacker learns from mysterious rebels about the true nature of his reality.">>),
    CatalogEntry(CatPulpFiction, 1994,
        <<"The lives of two mob hitmen, a boxer, and others intertwine in four tales of violence and redemption.">>),
    CatalogEntry(CatLionKing, 1994,
        <<"A young lion prince flees his kingdom after his father's death.">>) >>

DigitChars == <<"0","1","2","3","4","5","6","7","8","9">>

IsDigit(c) == \E d \in 1..10 : DigitChars[d] = c

DigitValue(c) == (CHOOSE d \in 1..10 : DigitChars[d] = c) - 1

\* String(n) for an integer n >= 0
RECURSIVE NumberToString(_)
NumberToString(n) ==
    IF n < 10 THEN <<DigitChars[n + 1]>>
    ELSE NumberToString(n \div 10) \o <<DigitChars[(n % 10) + 1]>>

\* the number a string of digits spells
RECURSIVE DigitsToNumber(_)
DigitsToNumber(s) ==
    IF s = <<>> THEN 0
    ELSE 10 * DigitsToNumber(SubSeq(s, 1, Len(s) - 1)) + DigitValue(s[Len(s)])

\* a result of the search: what the route sends for one movie
SearchItem(id, title, year, poster, overview) ==
    [id |-> id, title |-> title, year |-> year, poster |-> poster,
     overview |-> overview]

getFallbackMoviesCaseSensitive(query) ==
    LET matches == SelectSeq(popularMovies,
                       LAMBDA movie : includes(movie.title, query))
    IN  IF Len(matches) > 0
        THEN [index \in 1..Len(matches) |->
                 SearchItem(JStr(<<"fallback-">> \o NumberToString(index - 1)),
                            JStr(matches[index].title), JNum(matches[index].year),
                            JNull, JStr(matches[index].overview))]
        ELSE << SearchItem(JStr(<<"custom-input">>), JStr(trim(query)), JNull, JNull,
                           JStr(<<"Add ">> \o trim(query)
                                    \o <<" as your favorite movie">>)) >>
\* the fallback result set: the catalog titles that contain the query, or
\* the query itself as the only entry
getFallbackMovies(query) ==
    LET queryLower == toLowerCase(query)
        matches == SelectSeq(popularMovies,
                       LAMBDA movie : includes(toLowerCase(movie.title), queryLower))
    IN  IF Len(matches) > 0
        THEN [index \in 1..Len(matches) |->
                 SearchItem(JStr(<<"fallback-">> \o NumberToString(index - 1)),
                            JStr(matches[index].title), JNum(matches[index].year),
                            JNull, JStr(matches[index].overview))]
        ELSE << SearchItem(JStr(<<"custom-input">>), JStr(trim(query)), JNull, JNull,
                           JStr(<<"Add ">> \o trim(query)
                                    \o <<" as your favorite movie">>)) >>

JNaN == [t |-> "NaN", v |-> <<>>]

\* new Date(s).getFullYear() for a string s: a date "YYYY-MM-DD" is midnight
\* UTC of that day, read in the server's time zone; any other string here is
\* no date
getFullYear(s, west) ==
    IF /\ Len(s) = 10
       /\ \A i \in {1, 2, 3, 4, 6, 7, 9, 10} : IsDigit(s[i])
       /\ s[5] = "-" /\ s[8] = "-"
    THEN LET year == DigitsToNumber(SubSeq(s, 1, 4))
             month == DigitsToNumber(SubSeq(s, 6, 7))
             day == DigitsToNumber(SubSeq(s, 9, 10))
         IN  IF west /\ month = 1 /\ day = 1 THEN JNum(year - 1) ELSE JNum(year)
    ELSE JNaN

PosterBase == <<"https://image.tmdb.org/t/p/w200">>

\* the mapping of one TMDB result
formatResult(movie, west) ==
    SearchItem(movie.id, movie.title,
               IF Truthy(movie.release_date)
               THEN getFullYear(movie.release_date.v, west) ELSE JNull,
               IF Truthy(movie.poster_path)
               THEN JStr(PosterBase \o movie.poster_path.v) ELSE JNull,
               movie.overview)

\* Array.prototype.slice(0, n)
sliceFrom0(arr, n) == SubSeq(arr, 1, IF Len(arr) < n THEN Len(arr) ELSE n)

\* status and body of the response; tmdbCalled and fallbackLookup record
\* whether the external call was made and whether getFallbackMovies ran
SearchResponse(results, fallback, tmdbCalled, fallbackLookup) ==
    [status |-> 200, results |-> results, fallback |-> fallback,
     tmdbCalled |-> tmdbCalled, fallbackLookup |-> fallbackLookup]

NoSearchResponse ==
    [status |-> 0, results |-> <<>>, fallback |-> FALSE,
     tmdbCalled |-> FALSE, fallbackLookup |-> FALSE]

FallbackResponse(query, tmdbCalled) ==
    SearchResponse(getFallbackMovies(query), TRUE, tmdbCalled, TRUE)

\* what the external call can do: fetch throws, the response is not ok, its
\* body is no JSON, or it is a payload with or without a status_code and with
\* a results field that is absent, no array, or an array of movies
NoResults == [kind |-> "absent", items |-> <<>>]

TmdbFailure(kind) == [kind |-> kind, status_code |-> FALSE, results |-> NoResults]

TmdbPayload(status_code, results) ==
    [kind |-> "payload", status_code |-> status_code, results |-> results]

searchWithKeyUnmarkedEmpty(query, west, tmdb) ==
    IF tmdb.kind # "payload" THEN FallbackResponse(query, TRUE)
    ELSE IF tmdb.status_code \/ tmdb.results.kind = "absent"
    THEN FallbackResponse(query, TRUE)
    ELSE IF tmdb.results.kind # "array" THEN FallbackResponse(query, TRUE)
    ELSE SearchResponse(
             [i \in 1..Len(sliceFrom0(tmdb.results.items, MaxResults)) |->
                 formatResult(tmdb.results.items[i], west)], FALSE, TRUE, FALSE)
\* the external lookup of GET (the try block and its catch): tmdb is the
\* outcome of the call: fetch throws, the response is not ok, its body is no
\* JSON, or it is a payload; a results value that is no array makes slice or
\* map throw
searchWithKey(query, west, tmdb) ==
    IF tmdb.kind # "payload" THEN FallbackResponse(query, TRUE)
    ELSE IF tmdb.status_code \/ tmdb.results.kind = "absent"
    THEN FallbackResponse(query, TRUE)
    ELSE IF tmdb.results.kind # "array" THEN FallbackResponse(query, TRUE)
    ELSE LET formattedResults ==
                 [i \in 1..Len(sliceFrom0(tmdb.results.items, MaxResults)) |->
                     formatResult(tmdb.results.items[i], west)]
         IN  IF Len(formattedResults) = 0 THEN FallbackResponse(query, TRUE)
             ELSE SearchResponse(formattedResults, FALSE, TRUE, FALSE)

searchMoviesGETKeyCheckFirst(query, key, west, tmdb) ==
    IF ~Truthy(query) THEN SearchResponse(<<>>, FALSE, FALSE, FALSE)
    ELSE IF ~key THEN FallbackResponse(query.v, FALSE)
    ELSE IF Len(query.v) < MinQueryLength
    THEN SearchResponse(<<>>, FALSE, FALSE, FALSE)
    ELSE searchWithKey(query.v, west, tmdb)
searchMoviesGETNoKeyUnmarked(query, key, west, tmdb) ==
    IF ~Truthy(query) \/ Len(query.v) < MinQueryLength
    THEN SearchResponse(<<>>, FALSE, FALSE, FALSE)
    ELSE IF ~key
    THEN SearchResponse(getFallbackMovies(query.v), FALSE, FALSE, TRUE)
    ELSE searchWithKey(query.v, west, tmdb)
\* the response of GET: query is the q parameter (null when absent), key
\* tells whether TMDB_API_KEY is set, west the server's time zone
searchMoviesGET(query, key, west, tmdb) ==
    IF ~Truthy(query) \/ Len(query.v) < MinQueryLength
    THEN SearchResponse(<<>>, FALSE, FALSE, FALSE)
    ELSE IF ~key THEN FallbackResponse(query.v, FALSE)
    ELSE searchWithKey(query.v, west, tmdb)

----------------------------------------------------------------------------
(* The User table and the preference endpoints *)

Users == {"u1", "u2"}

\* session?.user?.id is undefined
NoSessionUser == "none"

\* a row of the User table; exists = FALSE: there is no row
UserRow(favoriteMovie) == [exists |-> TRUE, favoriteMovie |-> favoriteMovie]

NoRow == [exists |-> FALSE, favoriteMovie |-> JNull]

\* the outcome of a storage call: ok with the row, or a thrown error with
\* its message; database is the table after the call
StorageOk(database, row) ==
    [ok |-> TRUE, db |-> database, row |-> row, message |-> <<>>]

StorageError(database, message) ==
    [ok |-> FALSE, db |-> database, row |-> NoRow, message |-> message]

\* getUserById: prisma.user.findUnique, null when there is no row; fails
\* tells whether the storage engine raises an error
getUserById(database, id, fails) ==
    IF fails THEN StorageError(database, <<"Can't reach database server">>)
    ELSE StorageOk(database, database[id])

updateUserFavoriteMovieAllRows(database, userId, favoriteMovie, fails) ==
    IF fails THEN StorageError(database, <<"Can't reach database server">>)
    ELSE IF favoriteMovie.t # "string"
    THEN StorageError(database, <<"Invalid value provided. Expected String or Null.">>)
    ELSE IF ~database[userId].exists
    THEN StorageError(database, <<"Record to update not found.">>)
    ELSE StorageOk([u \in DOMAIN database |->
                       IF database[u].exists THEN UserRow(favoriteMovie)
                       ELSE database[u]],
                   UserRow(favoriteMovie))
\* updateUserFavoriteMovie: prisma.user.update; it throws when the storage
\* engine fails, when there is no row to update and when the value is no
\* string
updateUserFavoriteMovie(database, userId, favoriteMovie, fails) ==
    IF fails THEN StorageError(database, <<"Can't reach database server">>)
    ELSE IF favoriteMovie.t # "string"
    THEN StorageError(database, <<"Invalid value provided. Expected String or Null.">>)
    ELSE IF ~database[userId].exists
    THEN StorageError(database, <<"Record to update not found.">>)
    ELSE StorageOk([database EXCEPT ![userId] = UserRow(favoriteMovie)],
                   UserRow(favoriteMovie))

\* status and body of a response, and the table after the request; dbRead
\* and dbWrite record whether the table was read and whether a write was
\* attempted
PrefResponse(status, error, details, row, database, dbRead, dbWrite) ==
    [status |-> status, error |-> error, details |-> details, row |-> row,
     db |-> database, dbRead |-> dbRead, dbWrite |-> dbWrite,
     message |-> <<>>, fact |-> JUndefined, source |-> "", llmCalled |-> FALSE]

\* a request to a preference endpoint: session is the user id of the session
\* or NoSessionUser, parsed tells whether request.json() succeeds, title is
\* the favoriteMovie or movie field of the body, fails whether the storage
\* engine raises an error during this request, llm what the completion call
\* does if the handler makes it
PrefRequest(endpoint, session, parsed, title, fails) ==
    [endpoint |-> endpoint, session |-> session, parsed |-> parsed,
     title |-> title, fails |-> fails,
     llm |-> [kind |-> "throws", content |-> JUndefined]]

\* POST /api/user/favorite-movie
favoriteMoviePOST(req, database) ==
    IF req.session = NoSessionUser
    THEN PrefResponse(401, <<"Unauthorized">>, <<>>, NoRow, database, FALSE, FALSE)
    ELSE IF ~req.parsed
    THEN PrefResponse(500, <<"Internal server error">>, <<>>, NoRow, database,
                      FALSE, FALSE)
    ELSE IF ~Truthy(req.title)
    THEN PrefResponse(400, <<"Favorite movie is required">>, <<>>, NoRow, database,
                      FALSE, FALSE)
    ELSE LET updated ==
                 updateUserFavoriteMovie(database, req.session, req.title, req.fails)
         IN  IF updated.ok
             THEN PrefResponse(200, <<>>, <<>>, updated.row, updated.db, FALSE, TRUE)
             ELSE PrefResponse(500, <<"Internal server error">>, <<>>, NoRow,
                               updated.db, FALSE, TRUE)

favoriteMovieGETReadsFirst(req, database) ==
    LET found == getUserById(database,
                             IF req.session = NoSessionUser
                             THEN CHOOSE u \in Users : TRUE ELSE req.session,
                             req.fails)
    IN  IF ~found.ok
        THEN PrefResponse(500, <<"Internal server error">>, <<>>, NoRow,
                          database, TRUE, FALSE)
        ELSE IF req.session = NoSessionUser
        THEN PrefResponse(401, <<"Unauthorized">>, <<>>, NoRow, database,
                          TRUE, FALSE)
        ELSE IF ~found.row.exists
        THEN PrefResponse(404, <<"User not found">>, <<>>, NoRow, database,
                          TRUE, FALSE)
        ELSE PrefResponse(200, <<>>, <<>>, found.row, database, TRUE, FALSE)
\* GET /api/user/favorite-movie
favoriteMovieGET(req, database) ==
    IF req.session = NoSessionUser
    THEN PrefResponse(401, <<"Unauthorized">>, <<>>, NoRow, database, FALSE, FALSE)
    ELSE LET found == getUserById(database, req.session, req.fails)
         IN  IF ~found.ok
             THEN PrefResponse(500, <<"Internal server error">>, <<>>, NoRow,
                               database, TRUE, FALSE)
             ELSE IF ~found.row.exists
             THEN PrefResponse(404, <<"User not found">>, <<>>, NoRow, database,
                               TRUE, FALSE)
             ELSE PrefResponse(200, <<>>, <<>>, found.row, database, TRUE, FALSE)

\* POST /api/set-movie
setMoviePOST(req, database) ==
    IF req.session = NoSessionUser
    THEN PrefResponse(401, <<"Authentication required">>, <<>>, NoRow, database,
                      FALSE, FALSE)
    ELSE IF ~req.parsed
    THEN PrefResponse(500, <<"Failed to save favorite movie">>,
                      <<"Unexpected end of JSON input">>, NoRow, database,
                      FALSE, FALSE)
    ELSE IF \/ ~Truthy(req.title)
            \/ req.title.t # "string"
            \/ ~Truthy(JStr(trim(req.title.v)))
    THEN PrefResponse(400, <<"Movie title is required">>, <<>>, NoRow, database,
                      FALSE, FALSE)
    ELSE LET updated ==
                 updateUserFavoriteMovie(database, req.session,
                                         JStr(trim(req.title.v)), req.fails)
         IN  IF updated.ok
             THEN PrefResponse(200, <<>>, <<>>, updated.row, updated.db, FALSE, TRUE)
             ELSE PrefResponse(500, <<"Failed to save favorite movie">>,
                               updated.message, NoRow, updated.db, FALSE, TRUE)

\* the 200 response of GET /api/movie-fact: the fact and its source tag
MovieFactResponse(row, database, fact, source, llmCalled) ==
    [PrefResponse(200, <<>>, <<>>, row, database, TRUE, FALSE)
        EXCEPT !.fact = JStr(fact), !.source = source, !.llmCalled = llmCalled]

NoFavoriteMessage == <<"Please set your favorite movie first using /api/set-movie">>

UnavailableFact(favoriteMovie) ==
    favoriteMovie \o <<" is a great movie choice! Unfortunately, AI fact generation is currently unavailable.">>

FascinatingFact(favoriteMovie) ==
    favoriteMovie \o <<" is a fascinating film with many interesting stories behind its creation!">>

ExcellentChoiceFact(favoriteMovie) ==
    favoriteMovie \o <<" is an excellent choice! Every great movie has fascinating stories behind its creation.">>

movieFactGETNoFavoriteCheck(req, database, key, llm) ==
    IF req.session = NoSessionUser
    THEN PrefResponse(401, <<"Authentication required">>, <<>>, NoRow, database,
                      FALSE, FALSE)
    ELSE LET found == getUserById(database, req.session, req.fails)
             user == found.row
             title == IF user.favoriteMovie.t = "string"
                      THEN user.favoriteMovie.v ELSE <<"null">>
             fact == IF llm.content.t = "string"
                     THEN JStr(trim(llm.content.v)) ELSE JUndefined
         IN  IF ~found.ok
             THEN PrefResponse(500, <<"Failed to generate movie fact">>,
                               found.message, NoRow, database, TRUE, FALSE)
             ELSE IF ~user.exists
             THEN PrefResponse(404, <<"User not found">>, <<>>, NoRow, database,
                               TRUE, FALSE)
             ELSE IF ~key
             THEN MovieFactResponse(user, database, UnavailableFact(title),
                                    "fallback", FALSE)
             ELSE IF llm.kind = "throws"
             THEN MovieFactResponse(user, database, ExcellentChoiceFact(title),
                                    "fallback", TRUE)
             ELSE MovieFactResponse(user, database,
                                    IF Truthy(fact) THEN fact.v
                                    ELSE FascinatingFact(title),
                                    "openai", TRUE)
\* GET /api/movie-fact: key tells whether OPENAI_API_KEY is set, llm is the
\* outcome of the completion call if it is made
movieFactGET(req, database, key, llm) ==
    IF req.session = NoSessionUser
    THEN PrefResponse(401, <<"Authentication required">>, <<>>, NoRow, database,
                      FALSE, FALSE)
    ELSE LET found == getUserById(database, req.session, req.fails)
             user == found.row
             fact == IF llm.content.t = "string"
                     THEN JStr(trim(llm.content.v)) ELSE JUndefined
         IN  IF ~found.ok
             THEN PrefResponse(500, <<"Failed to generate movie fact">>,
                               found.message, NoRow, database, TRUE, FALSE)
             ELSE IF ~user.exists
             THEN PrefResponse(404, <<"User not found">>, <<>>, NoRow, database,
                               TRUE, FALSE)
             ELSE IF ~Truthy(user.favoriteMovie)
             THEN [PrefResponse(400, <<"No favorite movie set">>, <<>>, NoRow,
                                database, TRUE, FALSE)
                      EXCEPT !.message = NoFavoriteMessage]
             ELSE IF ~key
             THEN MovieFactResponse(user, database,
                                    UnavailableFact(user.favoriteMovie.v),
                                    "fallback", FALSE)
             ELSE IF llm.kind = "throws"
             THEN MovieFactResponse(user, database,
                                    ExcellentChoiceFact(user.favoriteMovie.v),
                                    "fallback", TRUE)
             ELSE MovieFactResponse(user, database,
                                    IF Truthy(fact) THEN fact.v
                                    ELSE FascinatingFact(user.favoriteMovie.v),
                                    "openai", TRUE)

----------------------------------------------------------------------------
(* The requests and the outcomes of the environment *)

TitleHomeAlone2Full == <<"H","o","m","e"," ","A","l","o","n","e"," ","2",":"," ","L","o","s","t"," ","i","n"," ","N","e","w"," ","Y","o","r","k">>
TitleHomeAlone == <<"H","o","m","e"," ","A","l","o","n","e">>
TitleHomeAloneLost == <<"H","O","M","E"," ","A","L","O","N","E",":"," ","L","o","s","t"," ","i","n"," ","N","e","w"," ","Y","o","r","k">>
TitleLost == <<"L","o","s","t"," ","i","n"," ","N","e","w"," ","Y","o","r","k">>
TitleHomeAlone20 == <<"h","o","m","e"," ","a","l","o","n","e"," ","2","0">>
TitleTitanicYear == <<"T","i","t","a","n","i","c"," ","(","1","9","9","7",")">>
TitleAvatar == <<"A","V","A","T","A","R">>
TitleUnknown == <<"U","n","k","n","o","w","n"," ","O","b","s","c","u","r","e"," ","F","i","l","m">>
TitleAvatarTitanic == <<"A","v","a","t","a","r"," ","v","s"," ","T","i","t","a","n","i","c">>

Titles == {TitleHomeAlone2Full, TitleHomeAlone, TitleHomeAloneLost, TitleLost,
           TitleHomeAlone20, TitleTitanicYear, TitleAvatar, TitleUnknown,
           TitleAvatarTitanic}

MovieValues == {JUndefined, JNum(5), JStr(<<>>)} \cup {JStr(m) : m \in Titles}

RequestIdNumbers ==
    (-3..MaxRequestId) \cup {SeedModulus + k : k \in -1..MaxSeedExcess}

RequestIdValues == {JUndefined} \cup {JNum(n) : n \in RequestIdNumbers}

TableFacts == UNION {Range(facts(factKeys[i])) : i \in 1..Len(factKeys)}

OtherFact == <<"Some other fact.">>

ExcludeValues ==
    {JUndefined, JStr(<<>>), JStr(OtherFact)} \cup {JStr(f) : f \in TableFacts}

UnparsedBody ==
    [parsed |-> FALSE, movie |-> JUndefined, requestId |-> JUndefined,
     excludeFact |-> JUndefined]

FactBodies ==
    {UnparsedBody} \cup
    [parsed : {TRUE}, movie : MovieValues, requestId : RequestIdValues,
     excludeFact : ExcludeValues]

\* the text of a completion is any string: nothing, white space, a sentence
\* with white space around it, or a sentence that happens to be in the table
LlmOutcomes ==
    {LlmThrows, LlmContent(JUndefined), LlmContent(JStr(<<" ", "\n">>)),
     LlmContent(JStr(<<" ", "A generated fact.", " ">>)),
     LlmContent(JStr(facts(KeyTitanic)[2]))}

----------------------------------------------------------------------------
(* Each specification below studies one part; the others stay at rest *)

NotCalled == [t |-> "not called", v |-> <<>>]

NoArgs == [factsArray |-> <<>>, requestId |-> JUndefined, excludeFact |-> JUndefined]

IdleFact ==
    /\ openaiKey = FALSE
    /\ factBody = UnparsedBody
    /\ factResp = NoResponse
    /\ factPrev = NoResponse

IdleSelect ==
    /\ selArgs = NoArgs
    /\ selOut = NotCalled

NoPrefRequest == PrefRequest("none", NoSessionUser, FALSE, JUndefined, FALSE)

NoPrefResponse ==
    PrefResponse(0, <<>>, <<>>, NoRow, [u \in Users |-> NoRow], FALSE, FALSE)

IdlePref ==
    /\ db = [u \in Users |-> NoRow]
    /\ dbBefore = [u \in Users |-> NoRow]
    /\ prefReq = NoPrefRequest
    /\ prefResp = NoPrefResponse

Slots == 1..MaxInFlight

\* a slot without a request
NoRequestInFlight == [pc |-> "idle", req |-> NoPrefRequest, applied |-> FALSE]

IdleRace ==
    /\ inFlight = [s \in Slots |-> NoRequestInFlight]
    /\ lastWriter = [u \in Users |-> JNull]

\* MovieSearch as mounted with initialValue ""
IdleMovieSearch ==
    /\ msQuery = <<>>
    /\ movies = <<>>
    /\ isLoading = FALSE
    /\ showDropdown = FALSE
    /\ selectedIndex = -1
    /\ isFallback = FALSE
    /\ searchTimers = {}
    /\ timeoutId = JNull
    /\ searchesInFlight = {}
    /\ searchesIssued = 0
    /\ moviesOf = 0
    /\ selectionMade = FALSE

\* Home as mounted
IdleHome ==
    /\ userFavoriteMovie = <<>>
    /\ movieFact = <<>>
    /\ lastFact = <<>>
    /\ isSettingMovie = FALSE
    /\ isLoadingFact = FALSE
    /\ showMovieInput = FALSE
    /\ isEditingMovie = FALSE
    /\ userDataLoad = "not started"
    /\ saveInFlight = {}
    /\ factTimers = {}
    /\ factsInFlight = {}
    /\ factsIssued = 0
    /\ movieFactOf = <<>>

IdleUi == IdleMovieSearch /\ IdleHome

IdleSearch ==
    /\ tmdbKey = FALSE
    /\ serverWest = FALSE
    /\ searchQuery = JNull
    /\ tmdbOutcome = TmdbFailure("throws")
    /\ searchResp = NoSearchResponse

----------------------------------------------------------------------------
(* The fact generator: one request, sent any number of times *)

InitFact ==
    /\ openaiKey \in BOOLEAN
    /\ factBody \in FactBodies
    /\ factResp = NoResponse
    /\ factPrev = NoResponse
    /\ IdleSelect
    /\ IdleSearch
    /\ IdlePref
    /\ IdleRace
    /\ IdleUi

PostGenerateFact ==
    /\ \E rnd \in 0..(RandomSteps - 1), llm \in LlmOutcomes :
            factResp' = generateFactPOST(factBody, openaiKey, rnd, llm)
    /\ factPrev' = factResp
    /\ UNCHANGED <<uiVars, raceVars, openaiKey, factBody, selVars, searchVars, prefVars>>

NextFact == PostGenerateFact

SpecFact == InitFact /\ [][NextFact]_vars

----------------------------------------------------------------------------
(* getFactFromArray on its own: any array of facts *)

FactPool == {<<"Fact A.">>, <<"Fact B.">>, <<"Fact C.">>}

FactArrays == UNION {[1..n -> FactPool] : n \in 0..MaxFacts}

SelectExcludeValues == {JUndefined, JStr(<<>>)} \cup {JStr(f) : f \in FactPool}

InitSelect ==
    /\ IdleFact
    /\ IdleSearch
    /\ IdlePref
    /\ selArgs \in [factsArray : FactArrays, requestId : RequestIdValues,
                    excludeFact : SelectExcludeValues]
    /\ selOut = NotCalled
    /\ IdleRace
    /\ IdleUi

Select ==
    /\ \E rnd \in 0..(RandomSteps - 1) :
            selOut' = getFactFromArray(selArgs.factsArray, selArgs.requestId,
                                       selArgs.excludeFact, rnd)
    /\ UNCHANGED <<uiVars, raceVars, factVars, selArgs, searchVars, prefVars>>

NextSelect == Select

SpecSelect == InitSelect /\ [][NextSelect]_vars

----------------------------------------------------------------------------
(* The search proxy: one query, sent any number of times *)

\* the external service returns 0..MaxTmdbResults results
MaxTmdbResults == 9

QueryHo == <<"h","o">>
QueryHomeUpper == <<"H","O","M","E">>
QueryAlone2 == <<"a","l","o","n","e"," ","2">>
QueryThe == <<"t","h","e">>
QueryNoMatch == <<"z","z">>
QueryPadded == <<" ","z","z"," ">>
QueryBlank == <<" "," ">>
QueryOneChar == <<"a">>

SearchQueries ==
    {JNull, JStr(<<>>), JStr(QueryOneChar), JStr(QueryBlank), JStr(QueryHo),
     JStr(QueryHomeUpper), JStr(QueryAlone2), JStr(QueryThe), JStr(QueryNoMatch),
     JStr(QueryPadded), JStr(CatTitanic)}

DateFull == <<"1","9","9","7","-","1","2","-","1","9">>
DateNewYear == <<"1","9","9","0","-","0","1","-","0","1">>

\* the i-th result of the external service, in one of three shapes: all
\* fields, no release date and no poster, a release date on January 1st
TmdbItem(i, shape) ==
    [id |-> JNum(100 + i),
     title |-> JStr(<<"Movie ">> \o NumberToString(i)),
     release_date |-> CASE shape = 0 -> JStr(DateFull)
                        [] shape = 1 -> JUndefined
                        [] OTHER -> JStr(DateNewYear),
     poster_path |-> IF shape = 1 THEN JNull ELSE JStr(<<"/poster.jpg">>),
     overview |-> IF shape = 1 THEN JUndefined ELSE JStr(<<"An overview.">>)]

TmdbResults(n, first) == [i \in 1..n |-> TmdbItem(i, (i + first) % 3)]

TmdbOutcomes ==
    {TmdbFailure("throws"), TmdbFailure("not-ok"), TmdbFailure("bad-json")} \cup
    {TmdbPayload(sc, r) :
        sc \in BOOLEAN,
        r \in {NoResults, [kind |-> "not-array", items |-> <<>>]} \cup
              {[kind |-> "array", items |-> TmdbResults(n, first)] :
                  n \in 0..MaxTmdbResults, first \in 0..2}}

InitSearch ==
    /\ IdleFact
    /\ IdleSelect
    /\ IdlePref
    /\ tmdbKey \in BOOLEAN
    /\ serverWest \in BOOLEAN
    /\ searchQuery \in SearchQueries
    /\ tmdbOutcome = TmdbFailure("throws")
    /\ searchResp = NoSearchResponse
    /\ IdleRace
    /\ IdleUi

GetSearchMovies ==
    /\ \E tmdb \in TmdbOutcomes :
            /\ tmdbOutcome' = tmdb
            /\ searchResp' = searchMoviesGET(searchQuery, tmdbKey, serverWest, tmdb)
    /\ UNCHANGED <<uiVars, raceVars, factVars, selVars, prefVars, tmdbKey, serverWest, searchQuery>>

NextSearch == GetSearchMovies

SpecSearch == InitSearch /\ [][NextSearch]_vars

----------------------------------------------------------------------------
(* The preference endpoints: requests of any user, one after the other *)

TitlePadded == <<" ","A","v","a","t","a","r"," ">>

\* the favoriteMovie or movie field of a body: missing, empty, white space
\* only, a title with white space around it, a title, not a string
TitleValues ==
    {JUndefined, JStr(<<>>), JStr(QueryBlank), JStr(TitlePadded), JStr(CatAvatar),
     JNum(5)}

InitPref ==
    /\ openaiKey \in BOOLEAN
    /\ factBody = UnparsedBody
    /\ factResp = NoResponse
    /\ factPrev = NoResponse
    /\ IdleSelect
    /\ IdleSearch
    /\ IdlePref
    /\ IdleRace
    /\ IdleUi

\* the session adapter creates the row of a user at first authentication
AdapterCreateUser(u) ==
    /\ ~db[u].exists
    /\ db' = [db EXCEPT ![u] = UserRow(JNull)]
    /\ UNCHANGED <<uiVars, raceVars, factVars, selVars, searchVars, dbBefore, prefReq, prefResp>>

PostFavoriteMovie ==
    \E session \in Users \cup {NoSessionUser}, parsed \in BOOLEAN,
       title \in TitleValues, fails \in BOOLEAN :
        LET req == PrefRequest("favorite-movie", session, parsed,
                               IF parsed THEN title ELSE JUndefined, fails)
            resp == favoriteMoviePOST(req, db)
        IN  /\ prefReq' = req
            /\ prefResp' = resp
            /\ dbBefore' = db
            /\ db' = resp.db
            /\ UNCHANGED <<uiVars, raceVars, factVars, selVars, searchVars>>

PostSetMovie ==
    \E session \in Users \cup {NoSessionUser}, parsed \in BOOLEAN,
       title \in TitleValues, fails \in BOOLEAN :
        LET req == PrefRequest("set-movie", session, parsed,
                               IF parsed THEN title ELSE JUndefined, fails)
            resp == setMoviePOST(req, db)
        IN  /\ prefReq' = req
            /\ prefResp' = resp
            /\ dbBefore' = db
            /\ db' = resp.db
            /\ UNCHANGED <<uiVars, raceVars, factVars, selVars, searchVars>>

GetFavoriteMovie ==
    \E session \in Users \cup {NoSessionUser}, fails \in BOOLEAN :
        LET req == PrefRequest("get-favorite", session, TRUE, JUndefined, fails)
            resp == favoriteMovieGET(req, db)
        IN  /\ prefReq' = req
            /\ prefResp' = resp
            /\ dbBefore' = db
            /\ db' = resp.db
            /\ UNCHANGED <<uiVars, raceVars, factVars, selVars, searchVars>>

GetMovieFact ==
    \E session \in Users \cup {NoSessionUser}, fails \in BOOLEAN,
       llm \in LlmOutcomes :
        LET req == [PrefRequest("movie-fact", session, TRUE, JUndefined, fails)
                       EXCEPT !.llm = llm]
            resp == movieFactGET(req, db, openaiKey, req.llm)
        IN  /\ prefReq' = req
            /\ prefResp' = resp
            /\ dbBefore' = db
            /\ db' = resp.db
            /\ UNCHANGED <<uiVars, raceVars, factVars, selVars, searchVars>>

NextPref ==
    \/ \E u \in Users : AdapterCreateUser(u)
    \/ PostFavoriteMovie
    \/ PostSetMovie
    \/ GetFavoriteMovie
    \/ GetMovieFact

SpecPref == InitPref /\ [][NextPref]_vars

----------------------------------------------------------------------------
(* Concurrent set-favorite requests: each handler runs up to its storage    *)
(* call, the storage engine applies the calls one at a time                 *)

\* the titles of the concurrent requests
RaceTitles == {CatAvatar, CatTitanic, QueryBlank}

\* every user has authenticated before and has a row without a favorite
InitRace ==
    /\ IdleFact
    /\ IdleSelect
    /\ IdleSearch
    /\ db = [u \in Users |-> UserRow(JNull)]
    /\ dbBefore = [u \in Users |-> UserRow(JNull)]
    /\ prefReq = NoPrefRequest
    /\ prefResp = NoPrefResponse
    /\ IdleRace
    /\ IdleUi

\* a handler starts: the session and the body are read
Receive(s) ==
    /\ inFlight[s].pc = "idle"
    /\ \E session \in Users, endpoint \in {"favorite-movie", "set-movie"},
          title \in RaceTitles :
            inFlight' = [inFlight EXCEPT ![s] =
                [pc |-> "received",
                 req |-> PrefRequest(endpoint, session, TRUE, JStr(title), FALSE),
                 applied |-> FALSE]]
    /\ UNCHANGED <<uiVars, factVars, selVars, searchVars, prefVars, lastWriter>>

\* the handler validates, makes its storage call and answers; the write is
\* applied when the answer is 200
Complete(s) ==
    /\ inFlight[s].pc = "received"
    /\ \E fails \in BOOLEAN :
          LET req == [inFlight[s].req EXCEPT !.fails = fails]
              resp == IF req.endpoint = "favorite-movie"
                      THEN favoriteMoviePOST(req, db)
                      ELSE setMoviePOST(req, db)
          IN  /\ db' = resp.db
              /\ inFlight' = [inFlight EXCEPT ![s] =
                     [pc |-> "done", req |-> inFlight[s].req,
                      applied |-> resp.status = 200]]
              /\ lastWriter' = IF resp.status = 200
                               THEN [lastWriter EXCEPT ![req.session] = req.title]
                               ELSE lastWriter
    /\ UNCHANGED <<uiVars, factVars, selVars, searchVars, dbBefore, prefReq, prefResp>>

\* the response has been delivered
Release(s) ==
    /\ inFlight[s].pc = "done"
    /\ inFlight' = [inFlight EXCEPT ![s] = NoRequestInFlight]
    /\ UNCHANGED <<uiVars, factVars, selVars, searchVars, prefVars, lastWriter>>

NextRace ==
    \/ \E s \in Slots : Receive(s)
    \/ \E s \in Slots : Complete(s)
    \/ \E s \in Slots : Release(s)

SpecRace == InitRace /\ [][NextRace]_vars

----------------------------------------------------------------------------
(* The MovieSearch component: the events of the user, the debounce timer    *)
(* and the responses of the search calls, in any order                      *)

\* a response carries 0..MaxShown results
MaxShown == 2
\* at most MaxSearches search calls are made
MaxSearches == 2

\* the shortest query the component searches for: query.length < 2
MinSearchLength == 2

\* a result as the component holds it
Movie(id, title, year) == [id |-> id, title |-> title, year |-> year]

MoviePool == {Movie(101, CatAvatar, JNum(2009)), Movie(102, CatTitanic, JNull)}

\* the lists of results: each movie at most once
ResultLists ==
    {l \in UNION {[1..n -> MoviePool] : n \in 0..MaxShown} :
        \A i, j \in 1..Len(l) : l[i] = l[j] => i = j}

\* what a search call ends with: a response that is ok, one that is not, or
\* a thrown error
SearchOk(results, fallback) ==
    [kind |-> "ok", results |-> results, fallback |-> fallback]

SearchNotOk == [kind |-> "not-ok", results |-> <<>>, fallback |-> FALSE]

SearchThrows == [kind |-> "throws", results |-> <<>>, fallback |-> FALSE]

SearchOutcomes ==
    {SearchNotOk, SearchThrows} \cup
    {SearchOk(l, b) : l \in ResultLists, b \in BOOLEAN}

QueryHoPadded == <<"h","o"," ">>

\* the values the user gives the input
TypedQueries == {<<>>, QueryOneChar, QueryHo, QueryHoPadded}

\* the title handleSelectMovie passes on: "Title (year)", or the title alone
\* when there is no year
movieTitle(selected) ==
    IF Truthy(selected.year)
    THEN selected.title \o <<" ", "(">> \o NumberToString(selected.year.v) \o <<")">>
    ELSE selected.title

debouncedSearchEffectNoCleanup(q) ==
    /\ searchTimers' = searchTimers \cup
                          (IF Len(q) >= MinSearchLength THEN {JStr(q)} ELSE {})
    /\ timeoutId' = IF Len(q) >= MinSearchLength THEN JStr(q) ELSE JNull
\* the debounced search effect, run when the query has become q: the cleanup
\* of the run before it clears that run's timer, then a query of 2 or more
\* characters starts a timer
debouncedSearchEffect(q) ==
    /\ searchTimers' = (searchTimers \ {timeoutId}) \cup
                          (IF Len(q) >= MinSearchLength THEN {JStr(q)} ELSE {})
    /\ timeoutId' = IF Len(q) >= MinSearchLength THEN JStr(q) ELSE JNull

\* setQuery(q) and what the effect does to the results: a query under 2
\* characters clears them and hides the dropdown; hide tells whether the
\* handler itself hides the dropdown
setQuery(q, hide) ==
    /\ msQuery' = q
    /\ IF q # msQuery
       THEN /\ debouncedSearchEffect(q)
            /\ IF Len(q) < MinSearchLength
               THEN movies' = <<>> /\ showDropdown' = FALSE /\ moviesOf' = 0
               ELSE /\ showDropdown' = (showDropdown /\ ~hide)
                    /\ UNCHANGED <<movies, moviesOf>>
       ELSE /\ showDropdown' = (showDropdown /\ ~hide)
            /\ UNCHANGED <<searchTimers, timeoutId, movies, moviesOf>>

InitMovieSearch ==
    /\ IdleFact
    /\ IdleSelect
    /\ IdleSearch
    /\ IdlePref
    /\ IdleRace
    /\ IdleUi

\* onChange of the input
ChangeQuery ==
    /\ \E q \in TypedQueries : q # msQuery /\ setQuery(q, FALSE)
    /\ selectionMade' = FALSE
    /\ UNCHANGED <<factVars, selVars, searchVars, prefVars, raceVars, homeVars,
                   isLoading, selectedIndex, isFallback, searchesInFlight,
                   searchesIssued>>

\* a debounce timer fires: searchMovies up to its fetch
SearchTimerFires ==
    /\ searchesIssued < MaxSearches
    /\ \E t \in searchTimers :
          /\ searchTimers' = searchTimers \ {t}
          /\ searchesInFlight' =
                searchesInFlight \cup {[q |-> t.v, n |-> searchesIssued + 1]}
    /\ searchesIssued' = searchesIssued + 1
    /\ isLoading' = TRUE
    /\ UNCHANGED <<factVars, selVars, searchVars, prefVars, raceVars, homeVars,
                   msQuery, movies, showDropdown, selectedIndex, isFallback,
                   timeoutId, moviesOf, selectionMade>>

\* the response of a search call arrives: the rest of searchMovies
SearchResponds ==
    /\ \E r \in searchesInFlight, out \in SearchOutcomes :
          /\ searchesInFlight' = searchesInFlight \ {r}
          /\ moviesOf' = r.n
          /\ IF out.kind = "ok"
             THEN /\ movies' = out.results
                  /\ isFallback' = out.fallback
                  /\ showDropdown' = TRUE
             ELSE /\ movies' = <<>>
                  /\ isFallback' = FALSE
                  /\ showDropdown' = FALSE
    /\ isLoading' = FALSE
    /\ UNCHANGED <<factVars, selVars, searchVars, prefVars, raceVars, homeVars,
                   msQuery, selectedIndex, searchTimers, timeoutId,
                   searchesIssued, selectionMade>>

\* handleSelectMovie
handleSelectMovie(selected) ==
    /\ setQuery(movieTitle(selected), TRUE)
    /\ selectionMade' = TRUE

\* handleKeyDown
handleKeyDown(pressed) ==
    /\ showDropdown /\ Len(movies) > 0
    /\ CASE pressed = "ArrowDown" ->
              /\ selectedIndex' = IF selectedIndex < Len(movies) - 1
                                  THEN selectedIndex + 1 ELSE selectedIndex
              /\ UNCHANGED <<msQuery, movies, showDropdown, searchTimers, timeoutId,
                             moviesOf, selectionMade>>
         [] pressed = "ArrowUp" ->
              /\ selectedIndex' = IF selectedIndex > 0
                                  THEN selectedIndex - 1 ELSE selectedIndex
              /\ UNCHANGED <<msQuery, movies, showDropdown, searchTimers, timeoutId,
                             moviesOf, selectionMade>>
         [] pressed = "Enter" ->
              /\ IF selectedIndex >= 0 /\ selectedIndex < Len(movies)
                 THEN handleSelectMovie(movies[selectedIndex + 1])
                 ELSE UNCHANGED <<msQuery, movies, showDropdown, searchTimers,
                                  timeoutId, moviesOf, selectionMade>>
              /\ UNCHANGED selectedIndex
         [] OTHER ->
              /\ showDropdown' = FALSE
              /\ selectedIndex' = -1
              /\ UNCHANGED <<msQuery, movies, searchTimers, timeoutId, moviesOf,
                             selectionMade>>

KeyDown ==
    /\ \E pressed \in {"ArrowDown", "ArrowUp", "Enter", "Escape"} :
          handleKeyDown(pressed)
    /\ UNCHANGED <<factVars, selVars, searchVars, prefVars, raceVars, homeVars,
                   isLoading, isFallback, searchesInFlight, searchesIssued>>

\* a click on a result of the dropdown
ClickMovie ==
    /\ showDropdown /\ Len(movies) > 0
    /\ \E i \in 1..Len(movies) : handleSelectMovie(movies[i])
    /\ UNCHANGED <<factVars, selVars, searchVars, prefVars, raceVars, homeVars,
                   isLoading, selectedIndex, isFallback, searchesInFlight,
                   searchesIssued>>

\* a click on "Use ... as entered"
ClickManualEntry ==
    /\ showDropdown /\ Len(movies) > 0
    /\ trim(msQuery) # <<>>
    /\ setQuery(trim(msQuery), TRUE)
    /\ selectionMade' = TRUE
    /\ UNCHANGED <<factVars, selVars, searchVars, prefVars, raceVars, homeVars,
                   isLoading, selectedIndex, isFallback, searchesInFlight,
                   searchesIssued>>

\* onFocus of the input
FocusInput ==
    /\ showDropdown' = (showDropdown \/ Len(movies) > 0)
    /\ selectionMade' = FALSE
    /\ UNCHANGED <<factVars, selVars, searchVars, prefVars, raceVars, homeVars,
                   msQuery, movies, isLoading, selectedIndex, isFallback,
                   searchTimers, timeoutId, searchesInFlight, searchesIssued,
                   moviesOf>>

\* a mouse press outside the component
ClickOutside ==
    /\ showDropdown' = FALSE
    /\ UNCHANGED <<factVars, selVars, searchVars, prefVars, raceVars, homeVars,
                   msQuery, movies, isLoading, selectedIndex, isFallback,
                   searchTimers, timeoutId, searchesInFlight, searchesIssued,
                   moviesOf, selectionMade>>

NextMovieSearch ==
    \/ ChangeQuery
    \/ SearchTimerFires
    \/ SearchResponds
    \/ KeyDown
    \/ ClickMovie
    \/ ClickManualEntry
    \/ FocusInput
    \/ ClickOutside

SpecMovieSearch == InitMovieSearch /\ [][NextMovieSearch]_vars

----------------------------------------------------------------------------
(* The Home page of an authenticated user: the load of the user's data, the *)
(* saves of a selected title, the 500 ms timers and the generate-fact calls, *)
(* in any order. A function of a render reads the state of that render.     *)

\* at most MaxFactCalls generate-fact calls are made
MaxFactCalls == 2
\* at most MaxSaves saves are without a response at a time
MaxSaves == 1

\* the titles handleSetFavoriteMovie is called with
SelectedTitles == {CatAvatar, CatTitanic, QueryBlank}

\* a fact of the table about a movie
FactText(movie, k) == movie \o <<" fact ", k>>

FactsAbout(movie) == {FactText(movie, k) : k \in {"1", "2"}}

\* the message generateMovieFact shows for a response that is not ok
CouldNotGenerate(movie) ==
    <<"I couldn't generate a fact about \"">> \o movie
        \o <<"\" right now. Try refreshing the page!">>

\* the message generateMovieFact shows for a thrown error
HavingTrouble(movie) ==
    <<"Having trouble generating facts about \"">> \o movie
        \o <<"\". Please refresh the page to try again!">>

\* the state a function of the current render reads
Closure ==
    [movie |-> userFavoriteMovie, lastFact |-> lastFact, movieFact |-> movieFact]

\* what a generate-fact call ends with: the route answers 400 without a
\* movie, and a fact of the table is never the excluded one
FactOutcomes(r) ==
    {[kind |-> "not-ok", fact |-> <<>>], [kind |-> "throws", fact |-> <<>>]} \cup
    (IF r.movie = <<>>
     THEN {}
     ELSE {[kind |-> "ok", fact |-> f] : f \in FactsAbout(r.movie) \ {r.excludeFact}})

\* what the load of the user's data ends with
LoadOutcomes ==
    {[kind |-> "ok", favoriteMovie |-> JStr(CatAvatar)],
     [kind |-> "ok", favoriteMovie |-> JNull],
     [kind |-> "not-ok", favoriteMovie |-> JNull],
     [kind |-> "throws", favoriteMovie |-> JNull]}

\* generateMovieFact of the render with state c, up to its fetch; favorite is
\* the favorite movie the page holds at that time
generateMovieFact(c, favorite) ==
    /\ isLoadingFact' = TRUE
    /\ factsIssued' = factsIssued + 1
    /\ factsInFlight' = factsInFlight \cup
          {[movie |-> c.movie, excludeFact |-> c.lastFact,
            movieFact |-> c.movieFact, shown |-> movieFact,
            favorite |-> favorite, n |-> factsIssued + 1]}

\* the page right after the session is authenticated: fetchUserData is called
InitHome ==
    /\ IdleFact
    /\ IdleSelect
    /\ IdleSearch
    /\ IdlePref
    /\ IdleRace
    /\ IdleMovieSearch
    /\ userFavoriteMovie = <<>>
    /\ movieFact = <<>>
    /\ lastFact = <<>>
    /\ isSettingMovie = FALSE
    /\ isLoadingFact = FALSE
    /\ showMovieInput = FALSE
    /\ isEditingMovie = FALSE
    /\ userDataLoad = "under way"
    /\ saveInFlight = {}
    /\ factTimers = {}
    /\ factsInFlight = {}
    /\ factsIssued = 0
    /\ movieFactOf = <<>>

\* the response of fetchUserData arrives; a favorite movie loaded runs the
\* fact effect
UserDataResponds ==
    /\ userDataLoad = "under way"
    /\ \E out \in LoadOutcomes :
          /\ userDataLoad' = out.kind
          /\ IF out.kind = "ok" /\ Truthy(out.favoriteMovie)
             THEN /\ userFavoriteMovie' = out.favoriteMovie.v
                  /\ IF out.favoriteMovie.v # userFavoriteMovie
                     THEN generateMovieFact(
                              [Closure EXCEPT !.movie = out.favoriteMovie.v],
                              out.favoriteMovie.v)
                     ELSE UNCHANGED <<isLoadingFact, factsIssued, factsInFlight>>
                  /\ UNCHANGED showMovieInput
             ELSE /\ showMovieInput' = (showMovieInput \/ out.kind # "not-ok")
                  /\ UNCHANGED <<userFavoriteMovie, isLoadingFact, factsIssued,
                                 factsInFlight>>
    /\ UNCHANGED <<factVars, selVars, searchVars, prefVars, raceVars, msVars,
                   movieFact, lastFact, isSettingMovie, isEditingMovie,
                   saveInFlight, factTimers, movieFactOf>>

\* handleSetFavoriteMovie up to its fetch, called by the MovieSearch shown
handleSetFavoriteMovie(title) ==
    /\ trim(title) # <<>>
    /\ isSettingMovie' = TRUE
    /\ saveInFlight' = saveInFlight \cup {[title |-> trim(title), c |-> Closure]}

SelectMovie ==
    /\ showMovieInput \/ isEditingMovie
    /\ Cardinality(saveInFlight) < MaxSaves
    /\ \E title \in SelectedTitles : handleSetFavoriteMovie(title)
    /\ UNCHANGED <<factVars, selVars, searchVars, prefVars, raceVars, msVars,
                   userFavoriteMovie, movieFact, lastFact, isLoadingFact,
                   showMovieInput, isEditingMovie, userDataLoad, factTimers,
                   factsInFlight, factsIssued, movieFactOf>>

\* the response of a save arrives: the rest of handleSetFavoriteMovie, and
\* the fact effect when the favorite movie has changed
SaveResponds ==
    /\ factsIssued < MaxFactCalls
    /\ \E r \in saveInFlight, kind \in {"ok", "not-ok", "throws"} :
          /\ saveInFlight' = saveInFlight \ {r}
          /\ IF kind = "ok"
             THEN /\ userFavoriteMovie' = r.title
                  /\ showMovieInput' = FALSE
                  /\ isEditingMovie' = FALSE
                  /\ factTimers' = factTimers \cup {r.c}
                  /\ IF r.title # userFavoriteMovie
                     THEN generateMovieFact([Closure EXCEPT !.movie = r.title],
                                            r.title)
                     ELSE UNCHANGED <<isLoadingFact, factsIssued, factsInFlight>>
             ELSE UNCHANGED <<userFavoriteMovie, showMovieInput, isEditingMovie,
                              factTimers, isLoadingFact, factsIssued,
                              factsInFlight>>
    /\ isSettingMovie' = FALSE
    /\ UNCHANGED <<factVars, selVars, searchVars, prefVars, raceVars, msVars,
                   movieFact, lastFact, userDataLoad, movieFactOf>>

\* a 500 ms timer fires: generateMovieFact of the render the selection was
\* made in
FactTimerFires ==
    /\ factsIssued < MaxFactCalls
    /\ \E c \in factTimers :
          /\ factTimers' = factTimers \ {c}
          /\ generateMovieFact(c, userFavoriteMovie)
    /\ UNCHANGED <<factVars, selVars, searchVars, prefVars, raceVars, msVars,
                   userFavoriteMovie, movieFact, lastFact, isSettingMovie,
                   showMovieInput, isEditingMovie, userDataLoad, saveInFlight,
                   movieFactOf>>

\* the response of a generate-fact call arrives: the rest of generateMovieFact
FactResponds ==
    /\ \E r \in factsInFlight :
          /\ factsInFlight' = factsInFlight \ {r}
          /\ movieFactOf' = r.movie
          /\ \E out \in FactOutcomes(r) :
                CASE out.kind = "ok" ->
                        /\ lastFact' = r.movieFact
                        /\ movieFact' = out.fact
                  [] out.kind = "not-ok" ->
                        /\ movieFact' = CouldNotGenerate(r.movie)
                        /\ UNCHANGED lastFact
                  [] OTHER ->
                        /\ movieFact' = HavingTrouble(r.movie)
                        /\ UNCHANGED lastFact
    /\ isLoadingFact' = FALSE
    /\ UNCHANGED <<factVars, selVars, searchVars, prefVars, raceVars, msVars,
                   userFavoriteMovie, isSettingMovie, showMovieInput,
                   isEditingMovie, userDataLoad, saveInFlight, factTimers,
                   factsIssued>>

\* a click on "Change Movie" of the dashboard
ClickChangeMovie ==
    /\ ~showMovieInput /\ ~isEditingMovie
    /\ isEditingMovie' = TRUE
    /\ UNCHANGED <<factVars, selVars, searchVars, prefVars, raceVars, msVars,
                   userFavoriteMovie, movieFact, lastFact, isSettingMovie,
                   isLoadingFact, showMovieInput, userDataLoad, saveInFlight,
                   factTimers, factsInFlight, factsIssued, movieFactOf>>

\* a click on "Cancel" of the dashboard, disabled during a save
ClickCancel ==
    /\ ~showMovieInput /\ isEditingMovie /\ ~isSettingMovie
    /\ isEditingMovie' = FALSE
    /\ UNCHANGED <<factVars, selVars, searchVars, prefVars, raceVars, msVars,
                   userFavoriteMovie, movieFact, lastFact, isSettingMovie,
                   isLoadingFact, showMovieInput, userDataLoad, saveInFlight,
                   factTimers, factsInFlight, factsIssued, movieFactOf>>

NextHome ==
    \/ UserDataResponds
    \/ SelectMovie
    \/ SaveResponds
    \/ FactTimerFires
    \/ FactResponds
    \/ ClickChangeMovie
    \/ ClickCancel

SpecHome == InitHome /\ [][NextHome]_vars

----------------------------------------------------------------------------
(* Properties of the fact generator *)

\* the request reached the table lookup: the body was parsed and its movie
\* field is a non-empty string
HasTitle == factBody.parsed /\ factBody.movie.t = "string" /\ Truthy(factBody.movie)

Answered == factResp.status # 0

TitleLower == toLowerCase(factBody.movie.v)

\* the title contains one of the keys of the table
TitleMatchesAKey == \E i \in 1..Len(factKeys) : includes(TitleLower, factKeys[i])

\* the candidate list of the key the title matches
CandidateList == facts(matchedKey(factBody.movie.v))

\* the candidates left after exclusion: the list without the excluded fact,
\* or the whole list when the exclusion is empty or would leave nothing
CandidateSet ==
    LET ex == factBody.excludeFact
        left == IF ex.t = "string" /\ ex.v # <<>>
                THEN SelectSeq(CandidateList, LAMBDA f : f # ex.v)
                ELSE CandidateList
    IN  IF left = <<>> THEN CandidateList ELSE left

RequestIdIsNumber == factBody.requestId.t = "number"

\* C1: for a title that matches a key with more than one candidate and an
\* excludeFact equal to one of the candidates, the fact returned to the
\* caller is never excludeFact, whatever the request id is.
C1_ExcludedFactNeverReturned ==
    (/\ Answered /\ HasTitle /\ TitleMatchesAKey
     /\ Len(CandidateList) > 1
     /\ factBody.excludeFact.t = "string"
     /\ factBody.excludeFact.v \in Range(CandidateList))
    => ~StrictEq(factResp.fact, factBody.excludeFact)

\* C2: two calls with the same title, the same request id and the same
\* excluded fact return the same fact, for every title that matches a key and
\* every request id the caller sends.
C2_SameRequestSameFact ==
    (/\ Answered /\ factPrev.status # 0
     /\ HasTitle /\ TitleMatchesAKey /\ RequestIdIsNumber)
    => factResp.fact = factPrev.fact

\* C3 as stated: a title containing "home alone 2" or "lost in new york" is
\* answered from the sequel's list, and a title containing "home alone" but
\* not "home alone 2" is answered from the base list.
C3_SpecificityAsStated ==
    (Answered /\ HasTitle) =>
        /\ (includes(TitleLower, KeyHomeAlone2) \/ includes(TitleLower, KeyLostInNewYork))
              => factResp.key = KeyHomeAlone2
        /\ (includes(TitleLower, KeyHomeAlone) /\ ~includes(TitleLower, KeyHomeAlone2))
              => factResp.key = KeyHomeAlone

\* C3 amended: a title containing "home alone 2" or "lost in new york" has
\* its fact selected from the sequel's list (a table fact returned is one of
\* that list and none of the base list); a title containing "home alone" but
\* neither "home alone 2" nor "lost in new york" has it selected from the
\* base list.
C3_Specificity ==
    (Answered /\ HasTitle) =>
        /\ (includes(TitleLower, KeyHomeAlone2) \/ includes(TitleLower, KeyLostInNewYork))
              => /\ factResp.key = KeyHomeAlone2
                 /\ factResp.source = "table"
                       => /\ factResp.fact.v \in Range(facts(KeyHomeAlone2))
                          /\ factResp.fact.v \notin Range(facts(KeyHomeAlone))
        /\ (/\ includes(TitleLower, KeyHomeAlone)
            /\ ~includes(TitleLower, KeyHomeAlone2)
            /\ ~includes(TitleLower, KeyLostInNewYork))
              => /\ factResp.key = KeyHomeAlone
                 /\ factResp.source = "table"
                       => factResp.fact.v \in Range(facts(KeyHomeAlone))

\* a title with the base key and the sequel's subtitle, but without "home
\* alone 2", was answered with a fact of the sequel's list
C3_Witness ==
    /\ factBody.parsed
    /\ factBody.movie = JStr(TitleHomeAloneLost)
    /\ factResp.source = "table"
    /\ factResp.key = KeyHomeAlone2
    /\ factResp.fact.v \in Range(facts(KeyHomeAlone2))

C5_TableBeforeLlm ==
    Answered =>
        /\ (HasTitle /\ TitleMatchesAKey)
              => /\ factResp.source = "table"
                 /\ factResp.fact.t = "string"
                 /\ factResp.fact.v \in Range(CandidateList)
                 /\ ~factResp.llmCalled
        /\ factResp.llmCalled
              => (HasTitle /\ ~TitleMatchesAKey /\ openaiKey)

\* the movie field of the body is absent
MovieMissing == factBody.parsed /\ factBody.movie.t = "undefined"

\* the movie field of the body is absent, empty or no string
MovieInvalid ==
    /\ factBody.parsed
    /\ \/ factBody.movie.t # "string"
       \/ factBody.movie.v = <<>>

\* the response is 200 with a non-empty fact string and no error
OkWithFact ==
    /\ factResp.status = 200
    /\ factResp.fact.t = "string"
    /\ factResp.fact.v # <<>>
    /\ factResp.error = <<>>

\* C13 as stated: the answer is 400 only when the movie field is missing,
\* and every other request is answered 200 with a fact string.
C13_Only400WhenMissing ==
    Answered =>
        /\ factResp.status = 400 => MovieMissing
        /\ ~MovieMissing => OkWithFact

\* C13 amended: the answer is 400 exactly when the movie field is missing,
\* empty or not a string; every other request is answered 200 with a fact
\* string, whatever the LLM does (it throws, it returns nothing) and also
\* when the body cannot be parsed or no credential is configured.
C13_Only400WhenInvalid ==
    Answered =>
        /\ factResp.status = 400 <=> MovieInvalid
        /\ ~MovieInvalid => OkWithFact
        /\ factResp.status \in {200, 400}

\* the completion call was made and threw, and the answer is 200 with a fact
C13_Witness ==
    /\ HasTitle
    /\ openaiKey
    /\ factResp.llmCalled
    /\ factResp.source = "call-failed"
    /\ factResp.status = 200
    /\ factResp.fact.t = "string"

\* C14: a title that is missing, empty or not a string is answered 400, and
\* neither the fact table is consulted nor the LLM called for it.
C14_InvalidTitleRejectedFirst ==
    (Answered /\ MovieInvalid)
    => /\ factResp.status = 400
       /\ factResp.error # <<>>
       /\ ~factResp.tableRead
       /\ ~factResp.llmCalled

\* a number as title was rejected while a credential is configured
C14_Witness ==
    /\ openaiKey
    /\ factBody.parsed
    /\ factBody.movie = JNum(5)
    /\ factResp.status = 400
    /\ ~factResp.tableRead
    /\ ~factResp.llmCalled

\* C15: without an LLM credential, a title that matches no table key is
\* answered 200 with the fixed "no specific facts" sentence about that title,
\* and no LLM call is made.
C15_NoCredentialSentence ==
    (Answered /\ HasTitle /\ ~TitleMatchesAKey /\ ~openaiKey)
    => /\ factResp.status = 200
       /\ factResp.fact =
             JStr(<<"I don't have specific facts about \"">> \o factBody.movie.v
                  \o <<"\" available right now, but it's a great movie! Try refreshing the page.">>)
       /\ ~factResp.llmCalled

\* "Unknown Obscure Film" was answered without a credential
C15_Witness ==
    /\ ~openaiKey
    /\ factBody.parsed
    /\ factBody.movie = JStr(TitleUnknown)
    /\ factResp.status = 200
    /\ factResp.source = "no-credential"
    /\ includes(factResp.fact.v, TitleUnknown)

\* the outcomes in which the generator degrades to a templated sentence
DegradedSources == {"no-credential", "empty-output", "call-failed"}

\* C16: the sentences of the three degraded outcomes (no credential, empty
\* LLM output, LLM call failed) are pairwise distinct, and each of them
\* contains the requested title.
C16_DegradedSentencesNameTitle ==
    (Answered /\ HasTitle /\ factResp.source \in DegradedSources)
    => /\ includes(factResp.fact.v, factBody.movie.v)
       /\ (factPrev.source \in DegradedSources /\ factPrev.source # factResp.source)
             => factPrev.fact # factResp.fact

----------------------------------------------------------------------------
(* Properties of getFactFromArray *)

\* C6: selection from an array with exactly one entry returns that entry,
\* for every excludeFact (also the entry itself) and every request id.
C6_SingleEntryReturned ==
    (selOut # NotCalled /\ Len(selArgs.factsArray) = 1)
    => selOut = JStr(selArgs.factsArray[1])

\* the only entry was returned although it was the excluded fact and the
\* request id was negative
C6_Witness ==
    /\ Len(selArgs.factsArray) = 1
    /\ selArgs.excludeFact = JStr(selArgs.factsArray[1])
    /\ selArgs.requestId = JNum(-1)
    /\ selOut = JStr(selArgs.factsArray[1])

\* every entry of the array is the excluded fact
ExclusionLeavesNothing ==
    /\ Len(selArgs.factsArray) >= 1
    /\ selArgs.excludeFact.t = "string"
    /\ \A i \in 1..Len(selArgs.factsArray) :
          selArgs.factsArray[i] = selArgs.excludeFact.v

\* C22: for every array, request id and excludeFact the selection returns at
\* its only step, with null, undefined or an entry of the array and never an
\* error; when removing the excluded fact leaves no candidate, the selection
\* is made from the full list: with a positive request id it returns the
\* entry of the full list at the seeded index, without one an entry of it.
C22_ExclusionNeverStalls ==
    selOut # NotCalled =>
        /\ \/ selOut \in {JNull, JUndefined}
           \/ selOut.t = "string" /\ selOut.v \in Range(selArgs.factsArray)
        /\ Len(selArgs.factsArray) = 0 <=> selOut = JNull
        /\ ExclusionLeavesNothing =>
              /\ (selArgs.requestId.t = "number" /\ selArgs.requestId.v > 0)
                    => selOut = JStr(selArgs.factsArray[
                           ((selArgs.requestId.v % 1000000)
                               % Len(selArgs.factsArray)) + 1])
              /\ ~Truthy(selArgs.requestId)
                    => selOut.t = "string" /\ selOut.v \in Range(selArgs.factsArray)

\* every entry of a two-entry array was excluded and the selection still
\* returned an entry
C22_Witness ==
    /\ Len(selArgs.factsArray) = 2
    /\ ExclusionLeavesNothing
    /\ selArgs.requestId = JNum(1)
    /\ selOut = selArgs.excludeFact

----------------------------------------------------------------------------
(* Properties of the search proxy *)

SearchAnswered == searchResp.status # 0

\* the query is present and has 2 or more characters
QueryIsLongEnough == searchQuery.t = "string" /\ Len(searchQuery.v) >= 2

CatalogTitles == {popularMovies[i].title : i \in 1..Len(popularMovies)}

\* the catalog titles that contain the query, case-insensitively
MatchingTitles ==
    {title \in CatalogTitles :
        includes(toLowerCase(title), toLowerCase(searchQuery.v))}

ResultTitles == {searchResp.results[i].title.v : i \in 1..Len(searchResp.results)}

\* C8: a query that is absent or shorter than 2 characters gets an empty
\* result list, with no external call and no fallback lookup.
C8_ShortQueryEmpty ==
    (SearchAnswered /\ ~QueryIsLongEnough)
    => /\ searchResp.results = <<>>
       /\ ~searchResp.tmdbCalled
       /\ ~searchResp.fallbackLookup

\* a one-character query was answered while a credential is configured
C8_Witness ==
    /\ tmdbKey
    /\ searchQuery = JStr(QueryOneChar)
    /\ searchResp.status = 200
    /\ searchResp.results = <<>>

\* C9: without a movie-metadata credential, a query of 2 or more characters
\* is answered with fallback: true and with catalog titles only, or with the
\* single synthetic item when no catalog title matches; no external call.
C9_NoCredentialFallback ==
    (SearchAnswered /\ ~tmdbKey /\ QueryIsLongEnough)
    => /\ searchResp.fallback
       /\ ~searchResp.tmdbCalled
       /\ IF MatchingTitles # {}
          THEN /\ Len(searchResp.results) > 0
               /\ ResultTitles \subseteq CatalogTitles
          ELSE /\ Len(searchResp.results) = 1
               /\ searchResp.results[1].id = JStr(<<"custom-input">>)
               /\ searchResp.results[1].title = JStr(trim(searchQuery.v))

\* without a credential, an upper-case query got the two catalog titles that
\* contain it, marked as fallback
C9_Witness ==
    /\ ~tmdbKey
    /\ searchQuery = JStr(QueryHomeUpper)
    /\ searchResp.fallback
    /\ ResultTitles = {CatHomeAlone, CatHomeAlone2}

\* the external call was made and returned at least one result
ExternalCallSucceeded ==
    /\ tmdbKey
    /\ tmdbOutcome.kind = "payload"
    /\ ~tmdbOutcome.status_code
    /\ tmdbOutcome.results.kind = "array"
    /\ Len(tmdbOutcome.results.items) >= 1

\* C10: for a query of 2 or more characters every failure mode of the
\* external lookup gives status 200, the fallback result set and fallback:
\* true; the response is unmarked only when the external call returned at
\* least one result.
C10_FailureGivesFallback ==
    (SearchAnswered /\ QueryIsLongEnough)
    => /\ searchResp.status = 200
       /\ ~ExternalCallSucceeded
             => /\ searchResp.fallback
                /\ searchResp.results = getFallbackMovies(searchQuery.v)
       /\ ~searchResp.fallback => ExternalCallSucceeded

\* the external service answered with an empty results array and the
\* response carries the fallback set
C10_Witness ==
    /\ tmdbKey
    /\ searchQuery = JStr(QueryThe)
    /\ tmdbOutcome = TmdbPayload(FALSE, [kind |-> "array", items |-> <<>>])
    /\ searchResp.tmdbCalled
    /\ searchResp.fallback
    /\ Len(searchResp.results) = 5

\* the year a release date "YYYY-MM-DD" spells
ReleaseYear(date) == DigitsToNumber(SubSeq(date, 1, 4))

\* the smaller of two numbers
Min(a, b) == IF a < b THEN a ELSE b

\* C11: a successful external search returns the first 8 results at most, in
\* the external order, each with the id, title and overview of the external
\* result, the year of its release date (null when there is none) and the
\* poster URL built from its path fragment (null when there is none).
C11_SuccessfulSearchMapped ==
    (SearchAnswered /\ QueryIsLongEnough /\ ExternalCallSucceeded)
    => LET items == tmdbOutcome.results.items
       IN  /\ ~searchResp.fallback
           /\ Len(searchResp.results) = Min(Len(items), 8)
           /\ \A i \in 1..Len(searchResp.results) :
                 /\ searchResp.results[i].id = items[i].id
                 /\ searchResp.results[i].title = items[i].title
                 /\ searchResp.results[i].overview = items[i].overview
                 /\ searchResp.results[i].year =
                       IF items[i].release_date.t = "string"
                       THEN JNum(ReleaseYear(items[i].release_date.v))
                       ELSE JNull
                 /\ searchResp.results[i].poster =
                       IF items[i].poster_path.t = "string"
                       THEN JStr(<<"https://image.tmdb.org/t/p/w200">>
                                    \o items[i].poster_path.v)
                       ELSE JNull

\* the positions in the catalog of the titles that contain the query,
\* case-insensitively
MatchingPositions ==
    {i \in 1..Len(popularMovies) :
        includes(toLowerCase(popularMovies[i].title), toLowerCase(searchQuery.v))}

\* the k-th of them in catalog order
KthMatch(k) ==
    CHOOSE i \in MatchingPositions :
        Cardinality({j \in MatchingPositions : j < i}) = k - 1

\* the fallback result set of the latest response is the one of the claim,
\* with customTitle as the title of the synthetic entry
FallbackSetIs(customTitle) ==
    LET results == searchResp.results
    IN  IF MatchingPositions # {}
        THEN /\ Len(results) = Cardinality(MatchingPositions)
             /\ \A k \in 1..Len(results) :
                   /\ results[k].title = JStr(popularMovies[KthMatch(k)].title)
                   /\ results[k].id = JStr(<<"fallback-">> \o NumberToString(k - 1))
                   /\ results[k].poster = JNull
             /\ \A k, l \in 1..Len(results) :
                   k # l => results[k].id # results[l].id
        ELSE /\ Len(results) = 1
             /\ results[1].id = JStr(<<"custom-input">>)
             /\ results[1].title = JStr(customTitle)
             /\ results[1].poster = JNull

\* C12 as stated: the fallback set is the catalog titles that contain the
\* query case-insensitively, with sequential distinct ids and no poster, or,
\* when none matches, one synthetic entry whose title is the raw query.
C12_FallbackTitleIsRawQuery ==
    (SearchAnswered /\ searchResp.fallbackLookup) => FallbackSetIs(searchQuery.v)

\* C12 amended: the fallback set is the catalog titles that contain the
\* query case-insensitively, in catalog order, with ids "fallback-0",
\* "fallback-1", ... and no poster, or, when none matches, one synthetic
\* entry whose title is the query without its leading and trailing white
\* space.
C12_FallbackTitleIsTrimmedQuery ==
    (SearchAnswered /\ searchResp.fallbackLookup)
    => FallbackSetIs(trim(searchQuery.v))

\* a query with white space around it matched no catalog title and came
\* back as the synthetic entry, trimmed
C12_Witness ==
    /\ searchQuery = JStr(QueryPadded)
    /\ searchResp.fallbackLookup
    /\ Len(searchResp.results) = 1
    /\ searchResp.results[1].id = JStr(<<"custom-input">>)
    /\ searchResp.results[1].title = JStr(QueryNoMatch)

----------------------------------------------------------------------------
(* Properties of the preference endpoints *)

\* the latest request was a set-favorite request of an authenticated user
\* who has a row, and its body carries a string as title
SetRequestWithTitle ==
    /\ prefReq.endpoint \in {"favorite-movie", "set-movie"}
    /\ prefReq.session # NoSessionUser
    /\ dbBefore[prefReq.session].exists
    /\ prefReq.parsed
    /\ prefReq.title.t = "string"

\* C7: on both set-favorite endpoints an empty or white-space-only title is
\* answered 400 and the stored preference stays as it was, and a title that
\* is written is stored trimmed.
C7_BlankTitleRejected ==
    SetRequestWithTitle =>
        /\ trim(prefReq.title.v) = <<>>
              => /\ prefResp.status = 400
                 /\ prefResp.db = dbBefore
                 /\ ~prefResp.dbWrite
        /\ prefResp.status = 200
              => prefResp.db[prefReq.session].favoriteMovie
                    = JStr(trim(prefReq.title.v))

\* the latest request went to GET /api/movie-fact
MovieFactRequested == prefReq.endpoint = "movie-fact"

\* the row of the session user when the latest request arrived
SessionRow == dbBefore[prefReq.session]

\* C17: GET movie-fact answers 401 without a session user id, whatever else
\* holds; with one, 404 when the user has no row; with a row, 400 with the
\* message to set a favorite first when none is stored; a fact is produced
\* only when all three checks pass, and no LLM call is made on 401, 404, 400.
C17_MovieFactChecksInOrder ==
    MovieFactRequested =>
        /\ prefReq.session = NoSessionUser => prefResp.status = 401
        /\ (prefReq.session # NoSessionUser /\ ~prefReq.fails)
              => /\ ~SessionRow.exists => prefResp.status = 404
                 /\ (SessionRow.exists /\ ~Truthy(SessionRow.favoriteMovie))
                       => /\ prefResp.status = 400
                          /\ prefResp.message = NoFavoriteMessage
                 /\ (SessionRow.exists /\ Truthy(SessionRow.favoriteMovie))
                       => /\ prefResp.status = 200
                          /\ prefResp.fact.t = "string"
        /\ prefResp.status \in {401, 404, 400}
              => /\ ~prefResp.llmCalled
                 /\ prefResp.fact = JUndefined
        /\ prefResp.fact.t = "string"
              => /\ prefReq.session # NoSessionUser
                 /\ SessionRow.exists
                 /\ Truthy(SessionRow.favoriteMovie)

\* a user with a row and no favorite asked for a fact while a credential is
\* configured, and got 400 without an LLM call
C17_Witness ==
    /\ MovieFactRequested
    /\ openaiKey
    /\ prefReq.session # NoSessionUser
    /\ SessionRow.exists
    /\ SessionRow.favoriteMovie = JNull
    /\ prefResp.status = 400
    /\ ~prefResp.llmCalled

\* C18: on each of the four preference endpoints a request without a session
\* user id is answered 401, and the User table is neither read nor written.
C18_NoSessionNoAccess ==
    (prefReq.endpoint \in {"favorite-movie", "set-movie", "get-favorite", "movie-fact"}
     /\ prefReq.session = NoSessionUser)
    => /\ prefResp.status = 401
       /\ ~prefResp.dbRead
       /\ ~prefResp.dbWrite
       /\ prefResp.db = dbBefore

\* a set-movie request with a valid title and no session was answered 401
\* while a user has a row
C18_Witness ==
    /\ prefReq.endpoint = "set-movie"
    /\ prefReq.session = NoSessionUser
    /\ prefReq.parsed
    /\ prefReq.title = JStr(CatAvatar)
    /\ \E u \in Users : db[u].exists
    /\ prefResp.status = 401

\* the latest request reached the storage call and the storage engine raised
\* an error
StorageFailed ==
    /\ prefReq.fails
    /\ prefResp.dbRead \/ prefResp.dbWrite

\* C19: on every endpoint that touches the store, a storage error is
\* answered 500 and the response carries the message of the error.
C19_StorageErrorHasMessage ==
    (prefReq.endpoint # "none" /\ StorageFailed)
    => /\ prefResp.status = 500
       /\ prefResp.details = <<"Can't reach database server">>

\* the text the completion call of the latest request produced: its content
\* without the white space around it, when there is any
LlmText ==
    IF prefReq.llm.kind = "resolves" /\ prefReq.llm.content.t = "string"
    THEN trim(prefReq.llm.content.v) ELSE <<>>

\* C29: a 200 response of GET movie-fact is tagged "openai" only when its
\* fact is the text the LLM produced; the canned sentences (no credential,
\* empty LLM output, LLM call failed) are tagged "fallback".
C29_OpenaiTagOnlyForLlmText ==
    (MovieFactRequested /\ prefResp.status = 200)
    => /\ prefResp.source \in {"openai", "fallback"}
       /\ prefResp.source = "openai"
             => /\ prefResp.llmCalled
                /\ LlmText # <<>>
                /\ prefResp.fact = JStr(LlmText)
       /\ (~prefResp.llmCalled \/ LlmText = <<>>) => prefResp.source = "fallback"

----------------------------------------------------------------------------
(* Properties of concurrent set-favorite requests *)

\* no request is between its start and its answer
AllCompleted == \A s \in Slots : inFlight[s].pc # "received"

\* the record of every user holds one value: the title of the write applied
\* last for that user, or nothing when no write was applied
RecordIsLastWritten ==
    \A u \in Users :
        /\ db[u].exists
        /\ db[u].favoriteMovie = lastWriter[u]
        /\ db[u].favoriteMovie.t \in {"null", "string"}

\* a step changes the record of a user only when it completes a request of
\* that user
OnlyOwnRecordChanges ==
    \A u \in Users :
        db'[u] # db[u]
        => \E s \in Slots :
              /\ inFlight[s].pc = "received"
              /\ inFlight'[s].pc = "done"
              /\ inFlight[s].req.session = u

\* C20: under any interleaving of concurrent set-favorite requests the
\* record of a user holds exactly one title at every moment, the one of the
\* request whose write was applied last (so also after all requests have
\* completed), and a request of one user never changes the record of another.
C20_LastWriteWins ==
    /\ [](RecordIsLastWritten)
    /\ [](AllCompleted => RecordIsLastWritten)
    /\ [][OnlyOwnRecordChanges]_vars

\* two requests of the same user with different titles were handled at the
\* same time, both writes were applied, and the record holds the title of
\* the second slot's request
C20_Witness ==
    /\ inFlight[1].pc = "done" /\ inFlight[2].pc = "done"
    /\ inFlight[1].applied /\ inFlight[2].applied
    /\ inFlight[1].req.session = inFlight[2].req.session
    /\ inFlight[1].req.title = JStr(CatAvatar)
    /\ inFlight[2].req.title = JStr(CatTitanic)
    /\ db[inFlight[1].req.session].favoriteMovie = JStr(CatTitanic)
    /\ \A u \in Users : u # inFlight[1].req.session => db[u].favoriteMovie = JNull

----------------------------------------------------------------------------
(* Properties of the MovieSearch component *)

\* a step that makes a search call makes it for the value the input holds,
\* which has 2 or more characters and whose timer was pending
SearchOnlyForSettledQuery ==
    searchesIssued' # searchesIssued
    => \E r \in searchesInFlight' \ searchesInFlight :
          /\ r.q = msQuery
          /\ Len(r.q) >= 2
          /\ searchTimers = {JStr(r.q)}

\* C21: at most one debounce timer is pending at any time, it is the timer
\* of the value the input holds now, and a search call is made only for a
\* value of 2 or more characters whose timer ran out while the input still
\* held it: a value overwritten before that is never searched.
C21_DebounceRestarts ==
    /\ [](Cardinality(searchTimers) <= 1)
    /\ [](\A t \in searchTimers : t.v = msQuery /\ Len(t.v) >= 2)
    /\ [][SearchOnlyForSettledQuery]_vars

\* a search for "ho" is under way, the input was changed since, and the only
\* timer pending is the one of the new value
C21_Witness ==
    /\ searchesInFlight = {[q |-> QueryHo, n |-> 1]}
    /\ msQuery = QueryHoPadded
    /\ searchTimers = {JStr(QueryHoPadded)}

\* C26: the index selected with the keyboard lies between -1 and the number
\* of results held minus 1, after any sequence of key presses, query changes
\* and search responses.
C26_SelectedIndexInRange ==
    selectedIndex >= -1 /\ selectedIndex <= Len(movies) - 1

\* C27: once every search call has its response, the results held are those
\* of the last call made (unless a short query cleared them), and while the
\* query has fewer than 2 characters the results are empty and the dropdown
\* is hidden.
C27_NewestResultsShown ==
    /\ (searchesInFlight = {} /\ moviesOf # 0) => moviesOf = searchesIssued
    /\ Len(msQuery) < 2 => (movies = <<>> /\ ~showDropdown)

\* C28: after a selection, and until the user changes the query or focuses
\* the input, the dropdown is hidden and no search call is pending or made.
C28_ClosedAfterSelection ==
    selectionMade =>
        /\ ~showDropdown
        /\ searchTimers = {}

----------------------------------------------------------------------------
(* Properties of the Home page *)

IsTableFact(f) == \E m \in {CatAvatar, CatTitanic} : f \in FactsAbout(m)

\* a step in which an ok response replaces a displayed table fact by a table
\* fact changes the text displayed
TableFactNotRepeated ==
    (/\ factsInFlight' # factsInFlight
     /\ factsInFlight' \subseteq factsInFlight
     /\ IsTableFact(movieFact)
     /\ IsTableFact(movieFact'))
    => movieFact' # movieFact

\* C23: the excludeFact of every generate-fact call is the fact displayed
\* when the call is made, and a table fact newly displayed is never the fact
\* displayed right before it.
C23_ExcludesDisplayedFact ==
    /\ [](\A r \in factsInFlight : r.excludeFact = r.shown)
    /\ [][TableFactNotRepeated]_vars

\* C24: every generate-fact call is made for the favorite movie the page
\* holds when the call is made, and once no save, timer or call is pending
\* the text displayed was generated for the favorite movie the page holds.
C24_FactsForNewTitle ==
    /\ \A r \in factsInFlight : r.movie = r.favorite
    /\ (saveInFlight = {} /\ factTimers = {} /\ factsInFlight = {}
            /\ movieFact # <<>>)
       => movieFactOf = userFavoriteMovie

\* C25: after a load that failed, by a thrown error or by a response that is
\* not ok, the selection screen is shown until a title is saved, and once the
\* load has ended the dashboard is shown only with a favorite movie.
C25_LoadFailureShowsSelection ==
    /\ (userDataLoad \in {"not-ok", "throws"} /\ userFavoriteMovie = <<>>)
       => showMovieInput
    /\ (userDataLoad # "under way" /\ ~showMovieInput)
       => userFavoriteMovie # <<>>

\* C30: isLoadingFact is true exactly while a generate-fact call is without
\* its response.
C30_LoadingFlagTracksRequests ==
    isLoadingFact <=> factsInFlight # {}

====
